---- MODULE Spec2Model ----
(***************************************************************************)
(* Document accessibility audit aggregator (DOCX / PDF auditors, their     *)
(* check functions and the categorization by WCAG principle) and the       *)
(* compliance-status derivation of the four report renderers.              *)
(*                                                                         *)
(* The parsed document is produced by a collaborator library; every check  *)
(* reads one aspect of it.  The aspect a check reads is drawn when the     *)
(* check reads it, and a library call inside a check may fail.             *)
(***************************************************************************)
EXTENDS Integers, Sequences, FiniteSets, TLC

(***************************************************************************)
(* Bounds of the model                                                     *)
(***************************************************************************)
MaxStyles == 2
MaxTables == 2
MaxRuns == 2
MaxParas == 4
MaxPages == 1
MaxFailures == 1
MaxToc == 3
MaxHeadings == 3
MaxReportIssues == 4
MaxTotal == 2

SeqsUpTo(S, n) == UNION {[1..k -> S] : k \in 0..n}

(***************************************************************************)
(* Python values                                                           *)
(***************************************************************************)
None == "None"

Principles == <<"Perceivable", "Operable", "Understandable", "Robust">>
PrincipleSet == {Principles[i] : i \in 1..Len(Principles)}
Severities == {"critical", "serious", "moderate", "minor"}

\* dict.get(key, default)
DictGet(d, key, default) == IF key \in DOMAIN d THEN d[key] ELSE default

\* str.strip() on the strings of the model
Strip(s) == CASE s = "  " -> ""
              [] s = " Click Here " -> "Click Here"
              [] s = "  CLICK HERE" -> "CLICK HERE"
              [] s = " here" -> "here"
              [] OTHER -> s

\* bool(x) for None and strings
Truthy(x) == x # None /\ x # ""

\* an issue record as the check functions build it
Issue(principle, criterion, name, severity, description, args, source) ==
    [wcag_principle |-> principle,
     success_criterion |-> criterion,
     success_criterion_name |-> name,
     severity |-> severity,
     description |-> description,
     description_args |-> args,
     remediation |-> TRUE,
     detection_source |-> source]

\* what a check function hands back to the auditor: the list it returns,
\* whether its body failed, and whether the failure left the function
CheckReturn(issues, failed) == [issues |-> issues, failed |-> failed, raised |-> FALSE]
CheckRaise == [issues |-> <<>>, failed |-> TRUE, raised |-> TRUE]

(***************************************************************************)
(* DOCX check functions                                                    *)
(***************************************************************************)
StyleNames == {"Normal", "Title", "Heading"} \cup
              {"Heading 1", "Heading 2", "Heading 3", "Heading 4", "Heading 5"}

\* para.style.name.startswith('Heading')
StartsWithHeading(style) == style \notin {"Normal", "Title"}

\* int(para.style.name.split()[-1]); ValueError is None here
HeadingLevel(style) == CASE style = "Heading 1" -> 1
                         [] style = "Heading 2" -> 2
                         [] style = "Heading 3" -> 3
                         [] style = "Heading 4" -> 4
                         [] style = "Heading 5" -> 5
                         [] OTHER -> 0

\* the levels of the paragraphs that carry a numbered heading style
RECURSIVE CollectHeadings(_)
CollectHeadings(styles) ==
    IF styles = <<>> THEN <<>>
    ELSE LET s == Head(styles)
             rest == CollectHeadings(Tail(styles))
         IN IF StartsWithHeading(s) /\ HeadingLevel(s) # 0
            THEN <<HeadingLevel(s)>> \o rest
            ELSE rest

NoHeadingsIssue ==
    Issue("Perceivable", "1.3.1", "Info and Relationships", "serious",
          "Document has no headings", <<>>, "docx-heading-check")

HeadingSkipIssue(prev_level, curr_level) ==
    Issue("Perceivable", "1.3.1", "Info and Relationships", "moderate",
          "Heading level skipped", <<prev_level, curr_level>>, "docx-heading-check")

\* the scan without the break: one issue for each skip
RECURSIVE FirstSkipFrom_no_break(_, _)
FirstSkipFrom_no_break(headings, i) ==
    IF i > Len(headings) THEN <<>>
    ELSE (IF headings[i] > headings[i-1] + 1
          THEN <<HeadingSkipIssue(headings[i-1], headings[i])>> ELSE <<>>)
         \o FirstSkipFrom_no_break(headings, i + 1)

\* for i in range(1, len(headings)): ... break  -- scanning from index i
RECURSIVE FirstSkipFrom(_, _)
FirstSkipFrom(headings, i) ==
    IF i > Len(headings) THEN <<>>
    ELSE IF headings[i] > headings[i-1] + 1
         THEN <<HeadingSkipIssue(headings[i-1], headings[i])>>
         ELSE FirstSkipFrom(headings, i + 1)

\* doc: [styles: the style names of the leading paragraphs,
\*       paragraphs: len(doc.paragraphs)], fail: "none" | "early"
\* the check with the paragraph threshold met at 20
check_heading_structure_from_20(doc, fail) ==
    IF fail = "early" THEN CheckReturn(<<>>, TRUE)
    ELSE LET headings == CollectHeadings(doc.styles)
             a == IF Len(headings) = 0 /\ doc.paragraphs >= 20
                  THEN <<NoHeadingsIssue>> ELSE <<>>
             b == IF Len(headings) > 1 THEN FirstSkipFrom(headings, 2) ELSE <<>>
         IN CheckReturn(a \o b, FALSE)

check_heading_structure(doc, fail) ==
    IF fail = "early" THEN CheckReturn(<<>>, TRUE)
    ELSE LET headings == CollectHeadings(doc.styles)
             a == IF Len(headings) = 0 /\ doc.paragraphs > 20
                  THEN <<NoHeadingsIssue>> ELSE <<>>
             b == IF Len(headings) > 1 THEN FirstSkipFrom(headings, 2) ELSE <<>>
         IN CheckReturn(a \o b, FALSE)

DocxImagesIssue(n) ==
    Issue("Perceivable", "1.1.1", "Non-text Content", "critical",
          "Found images", <<n>>, "docx-image-check")

\* doc: [images: number of relationships whose target names an image]
check_docx_alt_text_full(doc, fail) ==
    IF fail = "early" THEN CheckReturn(<<>>, TRUE)
    ELSE LET images_without_alt == doc.images
         IN CheckReturn(IF images_without_alt > 0
                        THEN <<DocxImagesIssue(images_without_alt)>> ELSE <<>>, FALSE)

DocxTablesIssue(n) ==
    Issue("Perceivable", "1.3.1", "Info and Relationships", "moderate",
          "Document contains tables", <<n>>, "docx-table-check")

\* for table_num, table in enumerate(doc.tables), from table number
\* table_num on; rows[k] is len(table.rows) of table k, broken the numbers
\* of the tables whose rows cannot be read
RECURSIVE TablesFrom(_, _, _, _)
TablesFrom(rows, broken, table_num, issues) ==
    IF table_num >= Len(rows) THEN CheckReturn(issues, FALSE)
    ELSE IF table_num \in broken THEN CheckReturn(issues, TRUE)
    ELSE IF rows[table_num + 1] > 0 /\ table_num = 0
         THEN TablesFrom(rows, broken, table_num + 1,
                         Append(issues, DocxTablesIssue(Len(rows))))
         ELSE TablesFrom(rows, broken, table_num + 1, issues)

\* the check without its try/except: a failure leaves the function
check_docx_tables_full_unguarded(doc, fail) ==
    LET out == CASE fail = "early" -> CheckReturn(<<>>, TRUE)
                 [] fail = "rows" /\ Len(doc.rows) > 0 ->
                       TablesFrom(doc.rows, {Len(doc.rows) - 1}, 0, <<>>)
                 [] OTHER -> TablesFrom(doc.rows, {}, 0, <<>>)
    IN IF out.failed THEN CheckRaise ELSE out

\* doc: [rows: len(table.rows) of each table of doc.tables]
\* fail: "none" | "early" (doc.tables) | "rows" (table.rows of the last table)
check_docx_tables_full(doc, fail) ==
    CASE fail = "early" -> CheckReturn(<<>>, TRUE)
      [] fail = "rows" /\ Len(doc.rows) > 0 ->
            TablesFrom(doc.rows, {Len(doc.rows) - 1}, 0, <<>>)
      [] OTHER -> TablesFrom(doc.rows, {}, 0, <<>>)

\* str.lower() on the strings of the model
Lower(s) == CASE s = "Click Here" -> "click here"
              [] s = "CLICK HERE" -> "click here"
              [] s = "HERE" -> "here"
              [] s = "Read More" -> "read more"
              [] OTHER -> s

LinkDenylist == {"click here", "here", "link", "read more", "more", "this",
                 "http", "https", "www"}

RunTexts == {" Click Here ", "  CLICK HERE", "HERE", " here", "Read More", "more",
             "click here for more",
             "Download the 2023 accessibility report", "accessibility report", ""}

\* the scan comparing the text as written, neither trimmed nor lowercased
RECURSIVE NonDescriptiveFrom_as_written(_, _)
NonDescriptiveFrom_as_written(runs, i) ==
    IF i > Len(runs) THEN <<>>
    ELSE LET text == runs[i].text
             rest == NonDescriptiveFrom_as_written(runs, i + 1)
         IN IF runs[i].underline /\ text \in LinkDenylist
            THEN <<text>> \o rest
            ELSE rest

\* the runs of all paragraphs in document order, from run i on
RECURSIVE NonDescriptiveFrom(_, _)
NonDescriptiveFrom(runs, i) ==
    IF i > Len(runs) THEN <<>>
    ELSE LET text == Lower(Strip(runs[i].text))
             rest == NonDescriptiveFrom(runs, i + 1)
         IN IF runs[i].underline /\ text \in LinkDenylist
            THEN <<text>> \o rest
            ELSE rest

DocxLinksIssue(n) ==
    Issue("Operable", "2.4.4", "Link Purpose (In Context)", "moderate",
          "Found potentially non-descriptive links", <<n>>, "docx-link-check")

\* doc: [runs: the runs of the paragraphs, each [underline, text]]
check_hyperlinks(doc, fail) ==
    IF fail = "early" THEN CheckReturn(<<>>, TRUE)
    ELSE LET non_descriptive_links == NonDescriptiveFrom(doc.runs, 1)
         IN CheckReturn(IF non_descriptive_links # <<>>
                        THEN <<DocxLinksIssue(Len(non_descriptive_links))>>
                        ELSE <<>>, FALSE)

DocxLanguageIssue ==
    Issue("Understandable", "3.1.1", "Language of Page", "serious",
          "Document language is not specified", <<>>, "docx-language-check")

\* doc: [language: doc.core_properties.language]
check_docx_language(doc, fail) ==
    IF fail = "early" THEN CheckReturn(<<>>, TRUE)
    ELSE CheckReturn(IF ~Truthy(doc.language) THEN <<DocxLanguageIssue>> ELSE <<>>, FALSE)

DocxTitleIssue ==
    Issue("Operable", "2.4.2", "Page Titled", "serious",
          "Document has no title set", <<>>, "docx-metadata-check")

\* the check testing only that a title object is there
check_docx_title_unstripped(doc, fail) ==
    IF fail = "early" THEN CheckReturn(<<>>, TRUE)
    ELSE CheckReturn(IF ~Truthy(doc.title) THEN <<DocxTitleIssue>> ELSE <<>>, FALSE)

\* doc: [title: doc.core_properties.title]
check_docx_title(doc, fail) ==
    IF fail = "early" THEN CheckReturn(<<>>, TRUE)
    ELSE CheckReturn(IF ~Truthy(doc.title) \/ Strip(doc.title) = ""
                     THEN <<DocxTitleIssue>> ELSE <<>>, FALSE)

\* no inspection is made: the list stays empty
check_list_structure(doc) == CheckReturn(<<>>, FALSE)

\* for run in para.runs: if run.font.size and run.font.size.pt > 14: ... break
\* sizes: run.font.size.pt of each run, 0 when the run has no size
HasLargeRun(sizes) == \E k \in 1..Len(sizes) : sizes[k] # 0 /\ sizes[k] > 14

RECURSIVE CountLargeFrom(_, _)
CountLargeFrom(paras, i) ==
    IF i > Len(paras) THEN 0
    ELSE (IF ~StartsWithHeading(paras[i].style) /\ HasLargeRun(paras[i].sizes)
          THEN 1 ELSE 0) + CountLargeFrom(paras, i + 1)

DocxLargeTextIssue(n) ==
    Issue("Perceivable", "1.3.1", "Info and Relationships", "minor",
          "Found paragraphs with large text not using Heading styles", <<n>>,
          "docx-formatting-check")

\* doc: [paras: the paragraphs, each [style, sizes]]
\* the check with the threshold met at 3 paragraphs
check_text_formatting_from_3(doc, fail) ==
    IF fail = "early" THEN CheckReturn(<<>>, TRUE)
    ELSE LET large_text_not_headings == CountLargeFrom(doc.paras, 1)
         IN CheckReturn(IF large_text_not_headings >= 3
                        THEN <<DocxLargeTextIssue(large_text_not_headings)>>
                        ELSE <<>>, FALSE)

check_text_formatting(doc, fail) ==
    IF fail = "early" THEN CheckReturn(<<>>, TRUE)
    ELSE LET large_text_not_headings == CountLargeFrom(doc.paras, 1)
         IN CheckReturn(IF large_text_not_headings > 3
                        THEN <<DocxLargeTextIssue(large_text_not_headings)>>
                        ELSE <<>>, FALSE)

(***************************************************************************)
(* PDF check functions                                                     *)
(***************************************************************************)
PdfNoBookmarksIssue ==
    Issue("Operable", "2.4.5", "Multiple Ways", "moderate",
          "PDF has no bookmarks or document outline", <<>>, "pdf-structure-check")

PdfOutlineIssue(page_count, entries) ==
    Issue("Operable", "2.4.6", "Headings and Labels", "moderate",
          "PDF has pages but only few bookmark entries", <<page_count, entries>>,
          "pdf-structure-check")

\* the check whose except clause reports the failure as one more issue
check_document_structure_reporting(doc, fail) ==
    LET a == IF doc.toc = 0 THEN <<PdfNoBookmarksIssue>> ELSE <<>>
        b == IF doc.page_count > 10 /\ doc.toc < 3
             THEN <<PdfOutlineIssue(doc.page_count, doc.toc)>> ELSE <<>>
        e == <<Issue("Robust", "4.1.2", "Name, Role, Value", "minor",
                     "Structure check failed", <<>>, "pdf-structure-check")>>
    IN CASE fail = "open" -> CheckReturn(e, TRUE)
         [] fail = "outline" -> CheckReturn(a \o e, TRUE)
         [] fail = "close" -> CheckReturn(a \o b \o e, TRUE)
         [] OTHER -> CheckReturn(a \o b, FALSE)

\* the check with the length test as the alternative of the outline test
check_document_structure_elif(doc, fail) ==
    LET a == IF doc.toc = 0 THEN <<PdfNoBookmarksIssue>> ELSE <<>>
        b == IF doc.toc # 0 /\ doc.page_count > 10 /\ doc.toc < 3
             THEN <<PdfOutlineIssue(doc.page_count, doc.toc)>> ELSE <<>>
    IN CASE fail = "open" -> CheckReturn(<<>>, TRUE)
         [] fail = "outline" -> CheckReturn(a, TRUE)
         [] fail = "close" -> CheckReturn(a \o b, TRUE)
         [] OTHER -> CheckReturn(a \o b, FALSE)

\* doc: [toc: len(doc.get_toc()), page_count: doc.page_count]
\* fail: "none" | "open" (fitz.open, get_toc) | "outline" (the length test)
\*       | "close" (doc.close())
check_document_structure(doc, fail) ==
    LET a == IF doc.toc = 0 THEN <<PdfNoBookmarksIssue>> ELSE <<>>
        b == IF doc.page_count > 10 /\ doc.toc < 3
             THEN <<PdfOutlineIssue(doc.page_count, doc.toc)>> ELSE <<>>
    IN CASE fail = "open" -> CheckReturn(<<>>, TRUE)
         [] fail = "outline" -> CheckReturn(a, TRUE)
         [] fail = "close" -> CheckReturn(a \o b, TRUE)
         [] OTHER -> CheckReturn(a \o b, FALSE)

\* the page number of every image, page by page: images[p] is
\* len(page.get_images()) of page p
RECURSIVE ImagePagesFrom(_, _)
ImagePagesFrom(images, page_num) ==
    IF page_num > Len(images) THEN <<>>
    ELSE [k \in 1..images[page_num] |-> page_num] \o ImagePagesFrom(images, page_num + 1)

PdfImagesIssue(pages) ==
    [wcag_principle |-> "Perceivable",
     success_criterion |-> "1.1.1",
     success_criterion_name |-> "Non-text Content",
     severity |-> "critical",
     description |-> "Found images that may be missing alternative text",
     description_args |-> <<Len(pages)>>,
     element_snippet |-> SubSeq(pages, 1, IF Len(pages) < 5 THEN Len(pages) ELSE 5),
     remediation |-> TRUE,
     detection_source |-> "pdf-image-check"]

\* doc: [images: images per page]; fail: "none" | "open" | "close"
check_alternative_text(doc, fail) ==
    LET images_without_alt == ImagePagesFrom(doc.images, 1)
        a == IF images_without_alt # <<>>
             THEN <<PdfImagesIssue(images_without_alt)>> ELSE <<>>
    IN CASE fail = "open" -> CheckReturn(<<>>, TRUE)
         [] fail = "close" -> CheckReturn(a, TRUE)
         [] OTHER -> CheckReturn(a, FALSE)

PdfLanguageIssue ==
    Issue("Understandable", "3.1.1", "Language of Page", "serious",
          "PDF document does not specify a language", <<>>, "pdf-metadata-check")

\* metadata.get("metadata", {}).get("/Lang")
check_language_settings(metadata) ==
    LET lang == DictGet(DictGet(metadata, "metadata", <<>>), "/Lang", None)
    IN CheckReturn(IF ~Truthy(lang) THEN <<PdfLanguageIssue>> ELSE <<>>, FALSE)

PdfTitleIssue ==
    Issue("Operable", "2.4.2", "Page Titled", "serious",
          "PDF document has no title set", <<>>, "pdf-metadata-check")

\* fail: "early" when the title object has no strip()
check_document_title(metadata, fail) ==
    LET title == DictGet(DictGet(metadata, "metadata", <<>>), "/Title", None)
    IN IF ~Truthy(title) THEN CheckReturn(<<PdfTitleIssue>>, FALSE)
       ELSE IF fail = "early" THEN CheckReturn(<<>>, TRUE)
       ELSE CheckReturn(IF Strip(title) = "" THEN <<PdfTitleIssue>> ELSE <<>>, FALSE)

PdfUntaggedIssue ==
    [wcag_principle |-> "Robust",
     success_criterion |-> "4.1.2",
     success_criterion_name |-> "Name, Role, Value",
     severity |-> "critical",
     description |-> "PDF is not tagged",
     description_args |-> <<>>,
     remediation |-> TRUE,
     detection_source |-> "pdf-tag-check",
     wcag_reference_url |-> "https://www.w3.org/WAI/WCAG22/Understanding/name-role-value.html"]

\* doc: [root: "absent" | "dict" | "other", keys: the keys of the catalog]
check_tagged_pdf(doc, fail) ==
    IF fail = "early" THEN CheckReturn(<<>>, TRUE)
    ELSE LET has_structure == /\ doc.root # "absent"
                              /\ doc.root = "dict"
                              /\ "/StructTreeRoot" \in doc.keys
         IN CheckReturn(IF ~has_structure THEN <<PdfUntaggedIssue>> ELSE <<>>, FALSE)

\* the words of the pages are extracted and sorted; nothing is reported
check_reading_order_detailed(doc, fail) ==
    IF fail = "early" THEN CheckReturn(<<>>, TRUE) ELSE CheckReturn(<<>>, FALSE)

PdfFormsIssue ==
    Issue("Perceivable", "1.3.1", "Info and Relationships", "moderate",
          "PDF contains form fields", <<>>, "pdf-form-check")

\* doc: [root, keys] as for check_tagged_pdf; an absent catalog reads as {}
check_form_fields(doc, fail) ==
    IF fail = "early" THEN CheckReturn(<<>>, TRUE)
    ELSE CheckReturn(IF doc.root # "absent" /\ "/AcroForm" \in doc.keys
                     THEN <<PdfFormsIssue>> ELSE <<>>, FALSE)

PdfTablesIssue(n) ==
    Issue("Perceivable", "1.3.1", "Info and Relationships", "moderate",
          "PDF contains tables", <<n>>, "pdf-table-check")

RECURSIVE SumSeq(_)
SumSeq(s) == IF s = <<>> THEN 0 ELSE Head(s) + SumSeq(Tail(s))

\* doc: [tables: len(page.extract_tables()) of each page]
check_tables(doc, fail) ==
    IF fail = "early" THEN CheckReturn(<<>>, TRUE)
    ELSE LET tables_found == SumSeq(doc.tables)
         IN CheckReturn(IF tables_found > 0 THEN <<PdfTablesIssue(tables_found)>>
                        ELSE <<>>, FALSE)

\* the reminder graded as a note instead of a severity
PdfContrastIssue_info ==
    Issue("Perceivable", "1.4.3", "Contrast (Minimum)", "info",
          "Color contrast should be manually verified", <<>>, "pdf-contrast-check")

PdfContrastIssue ==
    Issue("Perceivable", "1.4.3", "Contrast (Minimum)", "minor",
          "Color contrast should be manually verified", <<>>, "pdf-contrast-check")

check_color_contrast_pdf(file_path) == CheckReturn(<<PdfContrastIssue>>, FALSE)

(***************************************************************************)
(* The auditor: state of one audit invocation                              *)
(***************************************************************************)
VARIABLES
    pc,         \* "idle" | "checks" | "done": position of the invocation
    kind,       \* "docx" | "pdf": which auditor was called
    file_path,  \* the file_path argument
    file_state, \* "missing" | "corrupt" | "ok": what is found at file_path
    detailed,   \* the detailed argument
    metadata,   \* the metadata extracted when the document was opened
    step,       \* number of the next check of the check sequence
    issues,     \* the issues collected so far
    log,        \* the checks invoked so far: [check, failed, issues, intact],
                \* intact being what the check returns when nothing fails
    outcome,    \* "none" | "returned" | "raised": how the invocation ended
    result      \* the returned object

auditVars == <<pc, kind, file_path, file_state, detailed, metadata, step, issues, log,
               outcome, result>>

NoResult == [pending |-> TRUE]

FilePaths == {"annual.docx", "scan.pdf"}

\* return {"error": f"File not found: {file_path}"}
not_found_error(path) == [error |-> "File not found: " \o path]

\* the error object also carrying the counts of an empty audit
audit_except_with_counts(e, path) ==
    [raised |-> FALSE,
     value |-> [error |-> e, file |-> path, total_issues |-> 0, issues |-> <<>>]]

\* except Exception as e: return {"error": str(e), "file": file_path}
audit_except(e, path) ==
    [raised |-> FALSE, value |-> [error |-> e, file |-> path]]

EmptyCategorized == [p \in PrincipleSet |-> <<>>]

\* the loop skipping the issues of the fallback principle
RECURSIVE CategorizeFrom_skip_robust(_, _, _)
CategorizeFrom_skip_robust(all_issues, i, categorized) ==
    IF i > Len(all_issues) THEN [raised |-> FALSE, categorized |-> categorized]
    ELSE LET issue == all_issues[i]
             principle == DictGet(issue, "wcag_principle", "Robust")
         IN IF principle \notin DOMAIN categorized
            THEN [raised |-> TRUE, categorized |-> categorized]
            ELSE CategorizeFrom_skip_robust(all_issues, i + 1,
                     IF principle = "Robust" THEN categorized
                     ELSE [categorized EXCEPT ![principle] = Append(@, issue)])

\* for issue in issues: categorized[issue.get("wcag_principle", "Robust")].append(issue)
\* from issue i on; KeyError when the principle is no key of categorized
RECURSIVE CategorizeFrom(_, _, _)
CategorizeFrom(all_issues, i, categorized) ==
    IF i > Len(all_issues) THEN [raised |-> FALSE, categorized |-> categorized]
    ELSE LET issue == all_issues[i]
             principle == DictGet(issue, "wcag_principle", "Robust")
         IN IF principle \notin DOMAIN categorized
            THEN [raised |-> TRUE, categorized |-> categorized]
            ELSE CategorizeFrom(all_issues, i + 1,
                     [categorized EXCEPT ![principle] = Append(@, issue)])

Categorize(all_issues) == CategorizeFrom(all_issues, 1, EmptyCategorized)

\* the AuditResult whose total is the number of Perceivable issues
audit_result_total_of_bucket(path, meta, all_issues, categorized) ==
    [file |-> path,
     metadata |-> meta,
     total_issues |-> Len(categorized["Perceivable"]),
     perceivable_count |-> Len(categorized["Perceivable"]),
     operable_count |-> Len(categorized["Operable"]),
     understandable_count |-> Len(categorized["Understandable"]),
     robust_count |-> Len(categorized["Robust"]),
     issues |-> all_issues,
     issues_by_principle |-> categorized]

\* the AuditResult whose operable and understandable counts are exchanged
audit_result_swapped_counts(path, meta, all_issues, categorized) ==
    [file |-> path,
     metadata |-> meta,
     total_issues |-> Len(all_issues),
     perceivable_count |-> Len(categorized["Perceivable"]),
     operable_count |-> Len(categorized["Understandable"]),
     understandable_count |-> Len(categorized["Operable"]),
     robust_count |-> Len(categorized["Robust"]),
     issues |-> all_issues,
     issues_by_principle |-> categorized]

\* the AuditResult of lines 67-77
audit_result(path, meta, all_issues, categorized) ==
    [file |-> path,
     metadata |-> meta,
     total_issues |-> Len(all_issues),
     perceivable_count |-> Len(categorized["Perceivable"]),
     operable_count |-> Len(categorized["Operable"]),
     understandable_count |-> Len(categorized["Understandable"]),
     robust_count |-> Len(categorized["Robust"]),
     issues |-> all_issues,
     issues_by_principle |-> categorized]

\* the check sequence of each auditor
DocxChecks(det) ==
    <<"check_heading_structure", "check_docx_alt_text_full", "check_docx_tables_full",
      "check_hyperlinks", "check_docx_language", "check_docx_title">>
    \o (IF det THEN <<"check_list_structure", "check_text_formatting">> ELSE <<>>)

PdfChecks(det) ==
    <<"check_document_structure", "check_alternative_text", "check_language_settings",
      "check_document_title", "check_tagged_pdf">>
    \o (IF det THEN <<"check_reading_order_detailed", "check_form_fields",
                      "check_tables", "check_color_contrast_pdf">> ELSE <<>>)

Checks == IF kind = "docx" THEN DocxChecks(detailed) ELSE PdfChecks(detailed)

AuditInit ==
    /\ pc = "idle"
    /\ kind = "docx"
    /\ file_path = "annual.docx"
    /\ file_state = "ok"
    /\ detailed = TRUE
    /\ metadata = <<>>
    /\ step = 1
    /\ issues = <<>>
    /\ log = <<>>
    /\ outcome = "none"
    /\ result = NoResult

\* the invocation ends by returning value, or by the exception leaving it
Finish(h) ==
    /\ pc' = "done"
    /\ outcome' = IF h.raised THEN "raised" ELSE "returned"
    /\ result' = IF h.raised THEN NoResult ELSE h.value

ParagraphCounts == {MaxStyles, 21}

\* audit_docx_accessibility up to the first check: existence test, opening
\* the document, metadata.  fs: "missing" | "corrupt" | "ok"
audit_docx_accessibility(path, det, fs) ==
    /\ pc = "idle"
    /\ kind' = "docx"
    /\ file_path' = path
    /\ file_state' = fs
    /\ detailed' = det
    /\ issues' = <<>>
    /\ log' = <<>>
    /\ step' = 1
    /\ CASE fs = "missing" ->
              /\ Finish([raised |-> FALSE, value |-> not_found_error(path)])
              /\ metadata' = <<>>
         [] fs = "corrupt" ->
              /\ Finish(audit_except("Package not found", path))
              /\ metadata' = <<>>
         [] OTHER ->
              /\ \E n \in ParagraphCounts, t \in 0..MaxTables :
                    metadata' = [paragraphs |-> n, sections |-> 1, tables |-> t]
              /\ pc' = "checks"
              /\ outcome' = "none"
              /\ result' = NoResult

PdfInfo(lang, title) ==
    [k \in (IF lang = None THEN {} ELSE {"/Lang"}) \cup
           (IF title = None THEN {} ELSE {"/Title"})
       |-> IF k = "/Lang" THEN lang ELSE title]

PdfInfos == {PdfInfo(lang, title) : lang \in {None, "en-US"},
                                    title \in {None, "Report"}}

PageCounts == {MaxPages, 11}

\* audit_pdf_accessibility up to the first check
audit_pdf_accessibility(path, det, fs) ==
    /\ pc = "idle"
    /\ kind' = "pdf"
    /\ file_path' = path
    /\ file_state' = fs
    /\ detailed' = det
    /\ issues' = <<>>
    /\ log' = <<>>
    /\ step' = 1
    /\ CASE fs = "missing" ->
              /\ Finish([raised |-> FALSE, value |-> not_found_error(path)])
              /\ metadata' = <<>>
         [] fs = "corrupt" ->
              /\ Finish(audit_except("EOF marker not found", path))
              /\ metadata' = <<>>
         [] OTHER ->
              /\ \E n \in PageCounts, info \in PdfInfos :
                    metadata' = [pages |-> n, encrypted |-> FALSE, metadata |-> info]
              /\ pc' = "checks"
              /\ outcome' = "none"
              /\ result' = NoResult

\* issues.extend(await check(...)): the check named name ran and handed back out
AtCheck(name) == pc = "checks" /\ step <= Len(Checks) /\ Checks[step] = name

\* the number of checks of this audit whose body failed
Failures == Cardinality({i \in 1..Len(log) : log[i].failed})

\* issues.extend(await check(doc)): the check named name was given doc and
\* handed back out; the log keeps what the check was given
RunCheckOn(name, doc, out, intact) ==
    /\ AtCheck(name)
    /\ out.failed => Failures < MaxFailures
    /\ log' = Append(log, [check |-> name, failed |-> out.failed,
                            issues |-> out.issues, intact |-> intact.issues,
                            doc |-> doc])
    /\ IF out.raised
       THEN /\ Finish(audit_except("check failed", file_path))
            /\ UNCHANGED <<issues, step>>
       ELSE /\ issues' = issues \o out.issues
            /\ step' = step + 1
            /\ UNCHANGED <<pc, outcome, result>>
    /\ UNCHANGED <<kind, file_path, file_state, detailed, metadata>>

\* the auditor putting the output of a check in front of the list
RunCheck_prepending(name, out, intact) ==
    /\ AtCheck(name)
    /\ out.failed => Failures < MaxFailures
    /\ log' = Append(log, [check |-> name, failed |-> out.failed,
                            issues |-> out.issues, intact |-> intact.issues])
    /\ issues' = out.issues \o issues
    /\ step' = step + 1
    /\ UNCHANGED <<pc, outcome, result>>
    /\ UNCHANGED <<kind, file_path, file_state, detailed, metadata>>

RunCheck(name, out, intact) == RunCheckOn(name, <<>>, out, intact)

\* after the last check: categorize and return
Return ==
    /\ pc = "checks"
    /\ step > Len(Checks)
    /\ LET c == Categorize(issues)
       IN IF c.raised
          THEN Finish(audit_except("KeyError", file_path))
          ELSE Finish([raised |-> FALSE,
                       value |-> audit_result(file_path, metadata, issues, c.categorized)])
    /\ UNCHANGED <<kind, file_path, file_state, detailed, metadata, step, issues, log>>

(***************************************************************************)
(* The calls of the check sequence (docx_auditor.py 44-53,                 *)
(* pdf_auditor.py 49-59); each draws the aspect of the document it reads   *)
(***************************************************************************)
EarlyFail == {"none", "early"}

Call_check_heading_structure ==
    /\ AtCheck("check_heading_structure")
    /\ \E styles \in SeqsUpTo({"Normal", "Heading 1", "Heading 3"}, MaxStyles),
          fail \in EarlyFail :
           /\ Len(styles) <= metadata.paragraphs
           /\ RunCheck("check_heading_structure",
                       check_heading_structure([styles |-> styles, paragraphs |-> metadata.paragraphs], fail),
                       check_heading_structure([styles |-> styles, paragraphs |-> metadata.paragraphs], "none"))

Call_check_docx_alt_text_full ==
    /\ AtCheck("check_docx_alt_text_full")
    /\ \E n \in 0..1, fail \in EarlyFail :
           RunCheck("check_docx_alt_text_full",
                    check_docx_alt_text_full([images |-> n], fail),
                    check_docx_alt_text_full([images |-> n], "none"))

Call_check_docx_tables_full ==
    /\ AtCheck("check_docx_tables_full")
    /\ \E rows \in [1..metadata.tables -> {0, 3}], fail \in {"none", "early", "rows"} :
           RunCheck("check_docx_tables_full",
                    check_docx_tables_full([rows |-> rows], fail),
                    check_docx_tables_full([rows |-> rows], "none"))

PipelineRuns == {[underline |-> TRUE, text |-> " Click Here "],
                 [underline |-> TRUE, text |-> "accessibility report"]}

Call_check_hyperlinks ==
    /\ AtCheck("check_hyperlinks")
    /\ \E runs \in SeqsUpTo(PipelineRuns, MaxRuns), fail \in EarlyFail :
           RunCheck("check_hyperlinks",
                    check_hyperlinks([runs |-> runs], fail),
                    check_hyperlinks([runs |-> runs], "none"))

Call_check_docx_language ==
    /\ AtCheck("check_docx_language")
    /\ \E language \in {"", "en-US"}, fail \in EarlyFail :
           RunCheck("check_docx_language",
                    check_docx_language([language |-> language], fail),
                    check_docx_language([language |-> language], "none"))

Call_check_docx_title ==
    /\ AtCheck("check_docx_title")
    /\ \E title \in {"", "  ", "Report"}, fail \in EarlyFail :
           RunCheck("check_docx_title",
                    check_docx_title([title |-> title], fail),
                    check_docx_title([title |-> title], "none"))

Call_check_list_structure ==
    /\ AtCheck("check_list_structure")
    /\ RunCheck("check_list_structure",
                check_list_structure(file_path),
                check_list_structure(file_path))

LargePara == [style |-> "Normal", sizes |-> <<0, 24>>]

\* a first paragraph: large in one run, large in two runs, a large heading,
\* or 14pt text
FirstParas ==
    {LargePara, [style |-> "Normal", sizes |-> <<24, 18>>],
     [style |-> "Heading 1", sizes |-> <<24>>], [style |-> "Normal", sizes |-> <<14>>]}

\* the paragraphs of a document: none, or a first paragraph followed by
\* MaxParas - 2 or MaxParas - 1 large ones
FormattingDocs ==
    {[paras |-> <<>>]}
    \cup {[paras |-> <<first>> \o [i \in 1..k |-> LargePara]] :
             first \in FirstParas, k \in {MaxParas - 2, MaxParas - 1}}

Call_check_text_formatting ==
    /\ AtCheck("check_text_formatting")
    /\ \E doc \in FormattingDocs, fail \in EarlyFail :
           RunCheckOn("check_text_formatting", doc,
                      check_text_formatting(doc, fail),
                      check_text_formatting(doc, "none"))

Call_check_document_structure ==
    /\ AtCheck("check_document_structure")
    /\ \E toc \in {0, MaxToc - 1, MaxToc}, fail \in {"none", "open", "outline", "close"} :
           RunCheck("check_document_structure",
                    check_document_structure([toc |-> toc, page_count |-> metadata.pages], fail),
                    check_document_structure([toc |-> toc, page_count |-> metadata.pages], "none"))

Call_check_alternative_text ==
    /\ AtCheck("check_alternative_text")
    /\ \E images \in SeqsUpTo(0..1, MaxPages), fail \in {"none", "open", "close"} :
           RunCheck("check_alternative_text",
                    check_alternative_text([images |-> images], fail),
                    check_alternative_text([images |-> images], "none"))

Call_check_language_settings ==
    /\ AtCheck("check_language_settings")
    /\ RunCheck("check_language_settings",
                check_language_settings(metadata),
                check_language_settings(metadata))

Call_check_document_title ==
    /\ AtCheck("check_document_title")
    /\ \E fail \in EarlyFail :
           RunCheck("check_document_title",
                    check_document_title(metadata, fail),
                    check_document_title(metadata, "none"))

Catalogs == {[root |-> "absent", keys |-> {}]} \cup
            {[root |-> r, keys |-> k] :
                r \in {"dict", "other"}, k \in SUBSET {"/StructTreeRoot", "/AcroForm"}}

Call_check_tagged_pdf ==
    /\ AtCheck("check_tagged_pdf")
    /\ \E catalog \in Catalogs, fail \in EarlyFail :
           RunCheck("check_tagged_pdf",
                    check_tagged_pdf(catalog, fail),
                    check_tagged_pdf(catalog, "none"))

Call_check_reading_order_detailed ==
    /\ AtCheck("check_reading_order_detailed")
    /\ \E fail \in EarlyFail :
           RunCheck("check_reading_order_detailed",
                    check_reading_order_detailed(file_path, fail),
                    check_reading_order_detailed(file_path, "none"))

Call_check_form_fields ==
    /\ AtCheck("check_form_fields")
    /\ \E catalog \in Catalogs, fail \in EarlyFail :
           RunCheck("check_form_fields",
                    check_form_fields(catalog, fail),
                    check_form_fields(catalog, "none"))

Call_check_tables ==
    /\ AtCheck("check_tables")
    /\ \E tables \in SeqsUpTo(0..1, MaxPages), fail \in EarlyFail :
           RunCheck("check_tables",
                    check_tables([tables |-> tables], fail),
                    check_tables([tables |-> tables], "none"))

Call_check_color_contrast_pdf ==
    /\ AtCheck("check_color_contrast_pdf")
    /\ RunCheck("check_color_contrast_pdf",
                check_color_contrast_pdf(file_path),
                check_color_contrast_pdf(file_path))

FileStates == {"missing", "corrupt", "ok"}

AuditDocx ==
    \E path \in FilePaths, det \in BOOLEAN, fs \in FileStates :
        audit_docx_accessibility(path, det, fs)

AuditPdf ==
    \E path \in FilePaths, det \in BOOLEAN, fs \in FileStates :
        audit_pdf_accessibility(path, det, fs)

(***************************************************************************)
(* Audit invocations in flight together (server.py call_tool): each        *)
(* invocation has its own frame of the locals of the auditor               *)
(***************************************************************************)
VARIABLES
    inv         \* the frame of each invocation: the locals pc .. result

concurrentVars == <<inv>>

Invocations == {"a", "b"}

IdleFrame ==
    [pc |-> "idle", kind |-> "docx", file_path |-> "annual.docx", file_state |-> "ok",
     detailed |-> TRUE, metadata |-> <<>>, step |-> 1, issues |-> <<>>, log |-> <<>>,
     outcome |-> "none", result |-> NoResult]

ConcurrentIdle == inv = [i \in Invocations |-> IdleFrame]

\* what the libraries read from the file at a path
DocumentAt(path) ==
    IF path = "annual.docx"
    THEN [styles |-> <<"Heading 1", "Heading 3">>, paragraphs |-> 2, images |-> 1,
          rows |-> <<3>>, runs |-> <<[underline |-> TRUE, text |-> " Click Here "]>>,
          language |-> "", title |-> "Report", paras |-> <<>>,
          toc |-> 0, pages |-> 11, page_images |-> <<1>>,
          info |-> PdfInfo(None, "Report"),
          catalog |-> [root |-> "dict", keys |-> {"/AcroForm"}], page_tables |-> <<1>>]
    ELSE [styles |-> <<"Normal">>, paragraphs |-> 21, images |-> 0,
          rows |-> <<>>, runs |-> <<>>,
          language |-> "en-US", title |-> "", paras |-> <<>>,
          toc |-> 3, pages |-> 1, page_images |-> <<0>>,
          info |-> PdfInfo("en-US", None),
          catalog |-> [root |-> "dict", keys |-> {"/StructTreeRoot"}], page_tables |-> <<0>>]

\* the frame after the existence test, the opening and the metadata
Entered(k, path, det, fs) ==
    LET doc == DocumentAt(path)
        base == [IdleFrame EXCEPT !.kind = k, !.file_path = path, !.file_state = fs,
                                  !.detailed = det]
    IN CASE fs = "missing" ->
              [base EXCEPT !.pc = "done", !.outcome = "returned",
                           !.result = not_found_error(path)]
         [] fs = "corrupt" ->
              [base EXCEPT !.pc = "done", !.outcome = "returned",
                           !.result = audit_except(IF k = "docx" THEN "Package not found"
                                                   ELSE "EOF marker not found", path).value]
         [] OTHER ->
              [base EXCEPT !.pc = "checks",
                           !.metadata =
                               IF k = "docx"
                               THEN [paragraphs |-> doc.paragraphs, sections |-> 1,
                                     tables |-> Len(doc.rows)]
                               ELSE [pages |-> doc.pages, encrypted |-> FALSE,
                                     metadata |-> doc.info]]

FrameChecks(f) == IF f.kind = "docx" THEN DocxChecks(f.detailed) ELSE PdfChecks(f.detailed)

\* the failures a check can meet
FailKinds(name) ==
    CASE name = "check_docx_tables_full" -> {"none", "early", "rows"}
      [] name = "check_document_structure" -> {"none", "open", "outline", "close"}
      [] name = "check_alternative_text" -> {"none", "open", "close"}
      [] name \in {"check_list_structure", "check_language_settings",
                   "check_color_contrast_pdf"} -> {"none"}
      [] OTHER -> EarlyFail

\* await check(...) of the frame's document
CheckOutput(name, f, fail) ==
    LET doc == DocumentAt(f.file_path)
    IN CASE name = "check_heading_structure" ->
              check_heading_structure([styles |-> doc.styles,
                                       paragraphs |-> f.metadata.paragraphs], fail)
         [] name = "check_docx_alt_text_full" ->
              check_docx_alt_text_full([images |-> doc.images], fail)
         [] name = "check_docx_tables_full" ->
              check_docx_tables_full([rows |-> doc.rows], fail)
         [] name = "check_hyperlinks" -> check_hyperlinks([runs |-> doc.runs], fail)
         [] name = "check_docx_language" ->
              check_docx_language([language |-> doc.language], fail)
         [] name = "check_docx_title" -> check_docx_title([title |-> doc.title], fail)
         [] name = "check_list_structure" -> check_list_structure(f.file_path)
         [] name = "check_text_formatting" ->
              check_text_formatting([paras |-> doc.paras], fail)
         [] name = "check_document_structure" ->
              check_document_structure([toc |-> doc.toc,
                                        page_count |-> f.metadata.pages], fail)
         [] name = "check_alternative_text" ->
              check_alternative_text([images |-> doc.page_images], fail)
         [] name = "check_language_settings" -> check_language_settings(f.metadata)
         [] name = "check_document_title" -> check_document_title(f.metadata, fail)
         [] name = "check_tagged_pdf" -> check_tagged_pdf(doc.catalog, fail)
         [] name = "check_reading_order_detailed" ->
              check_reading_order_detailed(f.file_path, fail)
         [] name = "check_form_fields" -> check_form_fields(doc.catalog, fail)
         [] name = "check_tables" -> check_tables([tables |-> doc.page_tables], fail)
         [] OTHER -> check_color_contrast_pdf(f.file_path)

\* every invocation extending the list of invocation "a"
Extended_shared_list(f, name, out, intact) ==
    [f EXCEPT !.log = Append(@, [check |-> name, failed |-> out.failed,
                                 issues |-> out.issues, intact |-> intact.issues]),
              !.issues = inv["a"].issues \o out.issues,
              !.step = @ + 1]

\* issues.extend(await check(...)) on the frame's own list
Extended(f, name, out, intact) ==
    IF out.raised
    THEN [f EXCEPT !.log = Append(@, [check |-> name, failed |-> out.failed,
                                      issues |-> out.issues, intact |-> intact.issues]),
                   !.pc = "done", !.outcome = "returned",
                   !.result = audit_except("check failed", f.file_path).value]
    ELSE [f EXCEPT !.log = Append(@, [check |-> name, failed |-> out.failed,
                                      issues |-> out.issues, intact |-> intact.issues]),
                   !.issues = @ \o out.issues,
                   !.step = @ + 1]

\* the categorization and the return of the frame
Returned(f) ==
    LET c == Categorize(f.issues)
    IN [f EXCEPT !.pc = "done", !.outcome = "returned",
                 !.result = IF c.raised THEN audit_except("KeyError", f.file_path).value
                            ELSE audit_result(f.file_path, f.metadata, f.issues,
                                              c.categorized)]

\* call_tool starts an audit
Begin(i) ==
    /\ inv[i].pc = "idle"
    /\ \E k \in {"docx", "pdf"}, path \in FilePaths, det \in BOOLEAN, fs \in FileStates :
          inv' = [inv EXCEPT ![i] = Entered(k, path, det, fs)]

\* the invocation runs its next check
Step(i) ==
    /\ inv[i].pc = "checks"
    /\ inv[i].step <= Len(FrameChecks(inv[i]))
    /\ LET f == inv[i]
           name == FrameChecks(f)[f.step]
       IN \E fail \in FailKinds(name) :
             LET out == CheckOutput(name, f, fail)
             IN /\ out.failed =>
                      Cardinality({n \in 1..Len(f.log) : f.log[n].failed}) < MaxFailures
                /\ inv' = [inv EXCEPT ![i] =
                              Extended(f, name, out, CheckOutput(name, f, "none"))]

\* the invocation categorizes and returns
End(i) ==
    /\ inv[i].pc = "checks"
    /\ inv[i].step > Len(FrameChecks(inv[i]))
    /\ inv' = [inv EXCEPT ![i] = Returned(inv[i])]

(***************************************************************************)
(* A check function applied on its own to a document aspect                *)
(***************************************************************************)
VARIABLES
    check_in,   \* [fn, doc, fail]: the check and the aspect it is given
    check_out   \* what the check returned, NoResult before it ran

checkVars == <<check_in, check_out>>

CheckIdle == check_in = [fn |-> "none"] /\ check_out = NoResult

HeadingDocs == [styles : SeqsUpTo(StyleNames, MaxHeadings), paragraphs : {MaxHeadings, 20, 21}]

Apply_check_heading_structure ==
    /\ check_in.fn = "check_heading_structure"
    /\ check_out = NoResult
    /\ check_out' = check_heading_structure(check_in.doc, check_in.fail)
    /\ UNCHANGED check_in

\* the outline length and the page count of a PDF
StructureDocs == [toc : 0..MaxToc, page_count : {MaxPages, 10, 11}]

Apply_check_document_structure ==
    /\ check_in.fn = "check_document_structure"
    /\ check_out = NoResult
    /\ check_out' = check_document_structure(check_in.doc, check_in.fail)
    /\ UNCHANGED check_in

\* doc.core_properties.title: None, empty, blank or a title
Titles == {None, "", "  ", "Report"}

TitleDocs == [title : Titles]

Apply_check_docx_title ==
    /\ check_in.fn = "check_docx_title"
    /\ check_out = NoResult
    /\ check_out' = check_docx_title(check_in.doc, check_in.fail)
    /\ UNCHANGED check_in

\* the metadata dict built by audit_pdf_accessibility
PdfMetadatas ==
    {[pages |-> MaxPages, encrypted |-> FALSE, metadata |-> PdfInfo(lang, title)] :
        lang \in {None, "en-US"}, title \in Titles}

\* the runs of a document: run.font.underline and run.text
RunDocs == [runs : SeqsUpTo([underline : BOOLEAN, text : RunTexts], MaxRuns)]

Apply_check_hyperlinks ==
    /\ check_in.fn = "check_hyperlinks"
    /\ check_out = NoResult
    /\ check_out' = check_hyperlinks(check_in.doc, check_in.fail)
    /\ UNCHANGED check_in

\* len(table.rows) of each table of doc.tables
TableDocs == [rows : SeqsUpTo({0, 1, 3}, MaxTables)]

Apply_check_docx_tables_full ==
    /\ check_in.fn = "check_docx_tables_full"
    /\ check_out = NoResult
    /\ check_out' = check_docx_tables_full(check_in.doc, check_in.fail)
    /\ UNCHANGED check_in

Apply_check_document_title ==
    /\ check_in.fn = "check_document_title"
    /\ check_out = NoResult
    /\ check_out' = check_document_title(check_in.doc, check_in.fail)
    /\ UNCHANGED check_in

(***************************************************************************)
(* Report renderers: the compliance status of the scorecard                *)
(***************************************************************************)
VARIABLES
    request,    \* [audit_data, locale]: the validated report request
    report      \* [format, status]: the report generated for it

reportVars == <<request, report>>

ReportIdle == request = [pending |-> TRUE] /\ report = [format |-> "none"]

Locales == {"sv-SE", "en-US"}

\* audit_data.issues | selectattr('severity', 'equalto', sev) | list | length
\* sum(1 for i in audit_data.issues if i.severity == sev)
CountSeverity(report_issues, sev) ==
    Cardinality({i \in 1..Len(report_issues) : report_issues[i].severity = sev})

\* for issue in audit_data.issues: severity_counts[issue.severity] += 1
RECURSIVE SeverityCountsFrom(_, _, _)
SeverityCountsFrom(report_issues, i, severity_counts) ==
    IF i > Len(report_issues) THEN severity_counts
    ELSE SeverityCountsFrom(report_issues, i + 1,
             [severity_counts EXCEPT ![report_issues[i].severity] = @ + 1])

SeverityCounts(report_issues) ==
    SeverityCountsFrom(report_issues, 1, [sev \in Severities |-> 0])

html_status(audit_data, locale) ==
    LET critical_count == CountSeverity(audit_data.issues, "critical")
        serious_count == CountSeverity(audit_data.issues, "serious")
    IN IF critical_count > 0
       THEN (IF locale = "sv-SE" THEN "Ej efterlevnad" ELSE "Non-Compliant")
       ELSE IF serious_count > 0
       THEN (IF locale = "sv-SE" THEN "Delvis efterlevnad" ELSE "Partially Compliant")
       ELSE IF audit_data.total_issues > 0
       THEN (IF locale = "sv-SE" THEN "Huvudsakligen efterlevnad" ELSE "Mostly Compliant")
       ELSE (IF locale = "sv-SE" THEN "Fullt efterlevnad" ELSE "Fully Compliant")

\* the status is prefixed with a coloured emoji, written here by its name
markdown_status(audit_data, locale) ==
    LET severity_counts == SeverityCounts(audit_data.issues)
        critical_count == severity_counts["critical"]
        serious_count == severity_counts["serious"]
    IN IF critical_count > 0
       THEN "(red) " \o (IF locale = "sv-SE" THEN "Ej efterlevnad" ELSE "Non-Compliant")
       ELSE IF serious_count > 0
       THEN "(yellow) " \o (IF locale = "sv-SE" THEN "Delvis efterlevnad"
                                                ELSE "Partially Compliant")
       ELSE IF audit_data.total_issues > 0
       THEN "(green) " \o (IF locale = "sv-SE" THEN "Huvudsakligen efterlevnad"
                                               ELSE "Mostly Compliant")
       ELSE "(check) " \o (IF locale = "sv-SE" THEN "Fullt efterlevnad"
                                               ELSE "Fully Compliant")

text_status(audit_data, locale) ==
    LET severity_counts == SeverityCounts(audit_data.issues)
        critical_count == severity_counts["critical"]
        serious_count == severity_counts["serious"]
    IN IF critical_count > 0
       THEN (IF locale = "sv-SE" THEN "EJ EFTERLEVNAD" ELSE "NON-COMPLIANT")
       ELSE IF serious_count > 0
       THEN (IF locale = "sv-SE" THEN "DELVIS EFTERLEVNAD" ELSE "PARTIALLY COMPLIANT")
       ELSE IF audit_data.total_issues > 0
       THEN (IF locale = "sv-SE" THEN "HUVUDSAKLIGEN EFTERLEVNAD" ELSE "MOSTLY COMPLIANT")
       ELSE (IF locale = "sv-SE" THEN "FULLT EFTERLEVNAD" ELSE "FULLY COMPLIANT")

\* the status that needs more than one issue of a severity
word_status_by_count(audit_data, locale) ==
    LET critical_count == CountSeverity(audit_data.issues, "critical")
        serious_count == CountSeverity(audit_data.issues, "serious")
    IN IF critical_count > 1
       THEN (IF locale = "sv-SE" THEN "Ej efterlevnad" ELSE "Non-Compliant")
       ELSE IF serious_count > 1
       THEN (IF locale = "sv-SE" THEN "Delvis efterlevnad" ELSE "Partially Compliant")
       ELSE IF audit_data.total_issues > 0
       THEN (IF locale = "sv-SE" THEN "Huvudsakligen efterlevnad" ELSE "Mostly Compliant")
       ELSE (IF locale = "sv-SE" THEN "Fullt efterlevnad" ELSE "Fully Compliant")

word_status(audit_data, locale) ==
    LET critical_count == CountSeverity(audit_data.issues, "critical")
        serious_count == CountSeverity(audit_data.issues, "serious")
    IN IF critical_count > 0
       THEN (IF locale = "sv-SE" THEN "Ej efterlevnad" ELSE "Non-Compliant")
       ELSE IF serious_count > 0
       THEN (IF locale = "sv-SE" THEN "Delvis efterlevnad" ELSE "Partially Compliant")
       ELSE IF audit_data.total_issues > 0
       THEN (IF locale = "sv-SE" THEN "Huvudsakligen efterlevnad" ELSE "Mostly Compliant")
       ELSE (IF locale = "sv-SE" THEN "Fullt efterlevnad" ELSE "Fully Compliant")

\* [i for i in audit_data.issues if i.wcag_principle == principle], from index i
RECURSIVE PrincipleIssuesFrom(_, _, _)
PrincipleIssuesFrom(report_issues, principle, i) ==
    IF i > Len(report_issues) THEN <<>>
    ELSE (IF report_issues[i].wcag_principle = principle
          THEN <<report_issues[i]>> ELSE <<>>)
         \o PrincipleIssuesFrom(report_issues, principle, i + 1)

\* the text renderer with a section for every principle
RECURSIVE text_sections_all_principles(_, _, _)
text_sections_all_principles(report_issues, p, issue_number) ==
    IF p > Len(Principles) THEN <<>>
    ELSE LET principle_issues == PrincipleIssuesFrom(report_issues, Principles[p], 1)
         IN <<[principle |-> Principles[p],
               count |-> Len(principle_issues),
               cards |-> [k \in 1..Len(principle_issues) |->
                             [number |-> issue_number + k - 1,
                              issue |-> principle_issues[k]]]]>>
            \o text_sections_all_principles(report_issues, p + 1,
                                            issue_number + Len(principle_issues))

\* for principle in principles: ... -- from the p-th principle on; the issues
\* are numbered through the whole report
RECURSIVE text_sections(_, _, _)
text_sections(report_issues, p, issue_number) ==
    IF p > Len(Principles) THEN <<>>
    ELSE LET principle_issues == PrincipleIssuesFrom(report_issues, Principles[p], 1)
         IN IF principle_issues = <<>>
            THEN text_sections(report_issues, p + 1, issue_number)
            ELSE <<[principle |-> Principles[p],
                    count |-> Len(principle_issues),
                    cards |-> [k \in 1..Len(principle_issues) |->
                                  [number |-> issue_number + k - 1,
                                   issue |-> principle_issues[k]]]]>>
                 \o text_sections(report_issues, p + 1,
                                  issue_number + Len(principle_issues))

\* for idx, issue in enumerate(principle_issues, 1): the issues are numbered
\* within their section
RECURSIVE markdown_sections(_, _)
markdown_sections(report_issues, p) ==
    IF p > Len(Principles) THEN <<>>
    ELSE LET principle_issues == PrincipleIssuesFrom(report_issues, Principles[p], 1)
         IN (IF principle_issues = <<>> THEN <<>>
             ELSE <<[principle |-> Principles[p],
                     count |-> Len(principle_issues),
                     cards |-> [k \in 1..Len(principle_issues) |->
                                   [number |-> k, issue |-> principle_issues[k]]]]>>)
            \o markdown_sections(report_issues, p + 1)

\* _add_issues_by_principle
RECURSIVE word_sections(_, _)
word_sections(report_issues, p) ==
    IF p > Len(Principles) THEN <<>>
    ELSE LET principle_issues == PrincipleIssuesFrom(report_issues, Principles[p], 1)
         IN (IF principle_issues = <<>> THEN <<>>
             ELSE <<[principle |-> Principles[p],
                     count |-> Len(principle_issues),
                     cards |-> [k \in 1..Len(principle_issues) |->
                                   [number |-> k, issue |-> principle_issues[k]]]]>>)
            \o word_sections(report_issues, p + 1)

\* {% for principle, principle_name in [...] %}: the issue cards carry no number
RECURSIVE html_sections(_, _)
html_sections(report_issues, p) ==
    IF p > Len(Principles) THEN <<>>
    ELSE LET principle_issues == PrincipleIssuesFrom(report_issues, Principles[p], 1)
         IN (IF Len(principle_issues) > 0
             THEN <<[principle |-> Principles[p],
                     count |-> Len(principle_issues),
                     cards |-> [k \in 1..Len(principle_issues) |->
                                   [issue |-> principle_issues[k]]]]>>
             ELSE <<>>)
            \o html_sections(report_issues, p + 1)

\* the four severity counts of the HTML scorecard
html_severity_counts(report_issues) ==
    [sev \in Severities |-> CountSeverity(report_issues, sev)]

\* a rendered report: the status, the principle sections and the severity
\* counts of the scorecard
Render(format, status, sections, severity_counts) ==
    /\ request # [pending |-> TRUE]
    /\ report.format = "none"
    /\ report' = [format |-> format, status |-> status, sections |-> sections,
                  severity_counts |-> severity_counts]
    /\ UNCHANGED request

generate_html_report ==
    Render("html", html_status(request.audit_data, request.locale),
           html_sections(request.audit_data.issues, 1),
           html_severity_counts(request.audit_data.issues))

generate_markdown_report ==
    Render("markdown", markdown_status(request.audit_data, request.locale),
           markdown_sections(request.audit_data.issues, 1),
           SeverityCounts(request.audit_data.issues))

generate_text_report ==
    Render("text", text_status(request.audit_data, request.locale),
           text_sections(request.audit_data.issues, 1, 1),
           SeverityCounts(request.audit_data.issues))

generate_word_report ==
    Render("word", word_status(request.audit_data, request.locale),
           word_sections(request.audit_data.issues, 1),
           SeverityCounts(request.audit_data.issues))

\* issues of a report request: one sample per severity, over the principles
ReportIssues ==
    {[wcag_principle |-> "Perceivable", severity |-> "critical"],
     [wcag_principle |-> "Operable", severity |-> "serious"],
     [wcag_principle |-> "Understandable", severity |-> "moderate"],
     [wcag_principle |-> "Robust", severity |-> "minor"],
     [wcag_principle |-> "Perceivable", severity |-> "minor"]}

AuditDatas == [issues : SeqsUpTo(ReportIssues, MaxReportIssues),
               total_issues : 0..MaxTotal]

(***************************************************************************)
(* The report handler (generate-report/main.py)                            *)
(***************************************************************************)
VARIABLES
    event,      \* the Netlify event, a dict of optional keys
    environ,    \* os.environ: REPORT_SERVICE_KEY, None when unset
    response,   \* what the handler returned, or how it raised
    summary_raises  \* generate_executive_summary raises in this invocation

handlerVars == <<event, environ, response, summary_raises>>

HandlerIdle ==
    /\ event = [pending |-> TRUE] /\ environ = [pending |-> TRUE]
    /\ response = [pending |-> TRUE]
    /\ summary_raises = FALSE

\* JSON values of an event: null, an object, or a string written by the value
\* its text denotes, malformed text denoting none
Null == [type |-> "null"]
Obj(items) == [type |-> "object", items |-> items]
Arr(items) == [type |-> "array", items |-> items]
Str(denotes) == [type |-> "str", denotes |-> denotes]
Malformed == [type |-> "malformed"]

\* event.get(key, {}).get(name): AttributeError when the value is null
MappingGet(ev, key, name) ==
    LET m == DictGet(ev, key, Obj(<<>>))
    IN IF m.type # "object" THEN [raised |-> TRUE]
       ELSE [raised |-> FALSE, value |-> DictGet(m.items, name, None)]

\* json.loads(body)
JsonLoads(body) ==
    IF body.denotes = Malformed THEN [raised |-> TRUE]
    ELSE [raised |-> FALSE, value |-> body.denotes]

\* success_criterion: Field(pattern=r"^\d\.\d\.\d$")
MatchesCriterionPattern(sc) == sc \notin {"", "2.4.11", "1.1"}

DetectionSources == {"axe-core", "ai-heuristic"}

\* ReportIssue(**issue) is accepted
ValidReportIssue(issue) ==
    /\ {"wcag_principle", "success_criterion", "severity", "description",
        "detection_source", "remediation"} \subseteq DOMAIN issue
    /\ issue.wcag_principle \in PrincipleSet
    /\ MatchesCriterionPattern(issue.success_criterion)
    /\ issue.severity \in Severities
    /\ issue.detection_source \in DetectionSources

InputTypes == {"url", "html_full", "html_snippet", "issue_only"}

\* AuditData(**audit_data) is accepted
ValidAuditData(audit_data) ==
    /\ {"input_type", "created_at", "total_issues", "issues"} \subseteq DOMAIN audit_data
    /\ audit_data.input_type \in InputTypes
    /\ \A i \in 1..Len(audit_data.issues) : ValidReportIssue(audit_data.issues[i])

Templates == {"etu-standard", "etu-detailed", "etu-summary", "html", "markdown", "text"}

Formats == {"word", "html", "markdown", "text"}

\* ReportRequest(**request_data): the validated request with its defaults,
\* or the validation (or TypeError) failure
ReportRequest(request_data) ==
    IF request_data.type # "object" THEN [raised |-> TRUE]
    ELSE LET d == request_data.items
         IN IF /\ "audit_id" \in DOMAIN d
               /\ "audit_data" \in DOMAIN d
               /\ ValidAuditData(d.audit_data)
               /\ DictGet(d, "template", "etu-standard") \in Templates
               /\ DictGet(d, "format", None) \in Formats \cup {None}
               /\ DictGet(d, "locale", "sv-SE") \in Locales
            THEN [raised |-> FALSE,
                  value |-> [audit_id |-> d.audit_id,
                             template |-> DictGet(d, "template", "etu-standard"),
                             format |-> DictGet(d, "format", None),
                             audit_data |-> d.audit_data,
                             locale |-> DictGet(d, "locale", "sv-SE"),
                             include_ai_summary |-> DictGet(d, "include_ai_summary", TRUE)]]
            ELSE [raised |-> TRUE]

\* template_format_map.get(template, "word")
_get_format_from_template(template) ==
    CASE template = "html" -> "html"
      [] template = "markdown" -> "markdown"
      [] template = "text" -> "text"
      [] OTHER -> "word"

CorsHeaders ==
    [k \in {"Access-Control-Allow-Origin", "Access-Control-Allow-Headers",
            "Access-Control-Allow-Methods", "Content-Type"} |->
        CASE k = "Access-Control-Allow-Origin" -> "*"
          [] k = "Access-Control-Allow-Headers" -> "Content-Type, X-Report-Service-Key"
          [] k = "Access-Control-Allow-Methods" -> "POST, OPTIONS"
          [] OTHER -> "application/json"]

\* an error response; the body is written by the object json.dumps encodes
ErrorResponse(status, error) ==
    [statusCode |-> status, headers |-> CorsHeaders, body |-> [error |-> error]]

\* the template summary of the counts; a count the request leaves out is 0
_generate_fallback_summary(audit_data, locale) ==
    LET counts == ToString(DictGet(audit_data, "perceivable_count", 0)) \o ", "
                  \o ToString(DictGet(audit_data, "operable_count", 0)) \o ", "
                  \o ToString(DictGet(audit_data, "understandable_count", 0)) \o ", "
                  \o ToString(DictGet(audit_data, "robust_count", 0))
    IN IF locale = "sv-SE"
       THEN "Denna rapport innehaller " \o ToString(audit_data.total_issues)
            \o " tillganglighetsproblem: " \o counts
       ELSE "This report contains " \o ToString(audit_data.total_issues)
            \o " accessibility issues: " \o counts

\* the executive summary: None, the generated one, or the fallback built from
\* the counts when generate_executive_summary raises
ExecutiveSummary(report_request, ai_fails) ==
    IF ~report_request.include_ai_summary THEN None
    ELSE IF ai_fails
         THEN _generate_fallback_summary(report_request.audit_data,
                                         report_request.locale)
         ELSE "generated"

\* if executive_summary: the summary section of a rendered report, None
\* when the report has none
SummarySection(executive_summary) ==
    IF Truthy(executive_summary) THEN executive_summary ELSE None

\* lines 115-175: the report in the selected format and the 200 response
ReportResponse(report_request, format_type, executive_summary, ms) ==
    LET a == report_request.audit_data
        l == report_request.locale
        status == CASE format_type = "html" -> html_status(a, l)
                    [] format_type = "markdown" -> markdown_status(a, l)
                    [] format_type = "text" -> text_status(a, l)
                    [] OTHER -> word_status(a, l)
        rendered == CASE format_type = "html" -> "html"
                      [] format_type = "markdown" -> "markdown"
                      [] format_type = "text" -> "text"
                      [] OTHER -> "word"
        content_type ==
            CASE format_type = "html" -> "text/html; charset=utf-8"
              [] format_type = "markdown" -> "text/markdown; charset=utf-8"
              [] format_type = "text" -> "text/plain; charset=utf-8"
              [] OTHER -> "application/vnd.openxmlformats-officedocument.wordprocessingml.document"
        extension == CASE format_type = "html" -> ".html"
                       [] format_type = "markdown" -> ".md"
                       [] format_type = "text" -> ".txt"
                       [] OTHER -> ".docx"
        is_binary == format_type \notin {"html", "markdown", "text"}
        extra == [k \in {"Content-Type", "Content-Disposition", "X-Report-ID",
                         "X-Generation-Time-Ms"} |->
                    CASE k = "Content-Type" -> content_type
                      [] k = "Content-Disposition" ->
                            "accessibility-report-" \o report_request.audit_id \o extension
                      [] k = "X-Report-ID" -> report_request.audit_id
                      [] OTHER -> ToString(ms)]
    IN [statusCode |-> 200,
        headers |-> [k \in DOMAIN CorsHeaders \cup DOMAIN extra |->
                        IF k \in DOMAIN extra THEN extra[k] ELSE CorsHeaders[k]],
        body |-> [report |-> [format |-> rendered, status |-> status,
                              summary |-> SummarySection(executive_summary)],
                  base64 |-> is_binary],
        isBase64Encoded |-> is_binary]

\* lines 72-198: the try block, once the caller is authenticated
HandleAuthenticated(ev, ai_fails, ms) ==
    LET body == DictGet(ev, "body", Str(Obj(<<>>)))
        loaded == IF body.type = "str" THEN JsonLoads(body)
                  ELSE [raised |-> FALSE, value |-> body]
    IN IF loaded.raised THEN ErrorResponse(400, "INVALID_JSON")
       ELSE LET validated == ReportRequest(loaded.value)
            IN IF validated.raised THEN ErrorResponse(400, "INVALID_REQUEST")
               ELSE LET report_request == validated.value
                        executive_summary == ExecutiveSummary(report_request, ai_fails)
                        query_format == MappingGet(ev, "queryStringParameters", "format")
                    IN IF query_format.raised
                       THEN ErrorResponse(500, "GENERATION_ERROR")
                       ELSE ReportResponse(report_request,
                                IF Truthy(query_format.value) THEN query_format.value
                                ELSE _get_format_from_template(report_request.template),
                                executive_summary, ms)

\* handler(event, context): the response, or [raised |-> TRUE] when an
\* exception leaves the handler
HandlerResponse(ev, expected_key, ai_fails, ms) ==
    LET method == DictGet(ev, "httpMethod", None)
    IN IF method = "OPTIONS"
       THEN [statusCode |-> 204, headers |-> CorsHeaders, body |-> [text |-> ""]]
       ELSE IF method # "POST" THEN ErrorResponse(405, "METHOD_NOT_ALLOWED")
       ELSE LET lower == MappingGet(ev, "headers", "x-report-service-key")
                upper == MappingGet(ev, "headers", "X-Report-Service-Key")
            IN IF lower.raised THEN [raised |-> TRUE]
               ELSE LET api_key == IF Truthy(lower.value) THEN lower.value
                                   ELSE upper.value
                    IN IF ~Truthy(expected_key)
                       THEN ErrorResponse(500, "SERVER_CONFIG_ERROR")
                       ELSE IF ~Truthy(api_key) \/ api_key # expected_key
                       THEN ErrorResponse(401, "UNAUTHORIZED")
                       ELSE HandleAuthenticated(ev, ai_fails, ms)

\* the validated request of an event that reached the validation, else pending
RequestOf(ev) ==
    LET body == DictGet(ev, "body", Str(Obj(<<>>)))
        loaded == IF body.type = "str" THEN JsonLoads(body)
                  ELSE [raised |-> FALSE, value |-> body]
    IN IF loaded.raised THEN [pending |-> TRUE]
       ELSE LET validated == ReportRequest(loaded.value)
            IN IF validated.raised THEN [pending |-> TRUE] ELSE validated.value

handler ==
    /\ event # [pending |-> TRUE]
    /\ response = [pending |-> TRUE]
    /\ \E ai_fails \in BOOLEAN, ms \in 0..1 :
          /\ summary_raises' = ai_fails
          /\ response' = HandlerResponse(event, environ.REPORT_SERVICE_KEY, ai_fails, ms)
          /\ IF "statusCode" \in DOMAIN response' /\ response'.statusCode = 200
             THEN /\ request' = RequestOf(event)
                  /\ report' = response'.body.report
             ELSE UNCHANGED <<request, report>>
    /\ UNCHANGED <<event, environ>>

(***************************************************************************)
(* Command-line entry points: the report CLI (generate-report/cli.py) and  *)
(* the audit CLI (document-accessibility-server/cli.py)                    *)
(***************************************************************************)
VARIABLES
    cli_in,      \* the invocation: the program, its arguments and environment
    cli_stdout,  \* what the process wrote to stdout, in order
    cli_status   \* the exit status once the process has exited

cliVars == <<cli_in, cli_stdout, cli_status>>

Running == [exited |-> FALSE]
Exited(code) == [exited |-> TRUE, code |-> code]

CliIdle ==
    /\ cli_in = [program |-> "none"]
    /\ cli_stdout = <<>>
    /\ cli_status = Running

\* generate_word_report(audit_data, executive_summary, locale, template):
\* a BytesIO; metadata_labels[locale] is a KeyError for a locale it does not know
WordReport(audit_data, executive_summary, locale, template) ==
    IF locale \notin Locales THEN [raised |-> TRUE]
    ELSE [raised |-> FALSE,
          value |-> [type |-> "BytesIO",
                     report |-> [format |-> "word",
                                 status |-> word_status(audit_data, locale),
                                 summary |-> SummarySection(executive_summary)]]]

\* generate_html_report, generate_markdown_report, generate_text_report: a str
TextReport(format_type, audit_data, executive_summary, locale) ==
    [raised |-> FALSE,
     value |-> [type |-> "str",
                report |-> [format |-> format_type,
                            status |-> CASE format_type = "html" ->
                                              html_status(audit_data, locale)
                                         [] format_type = "markdown" ->
                                              markdown_status(audit_data, locale)
                                         [] OTHER -> text_status(audit_data, locale),
                            summary |-> SummarySection(executive_summary)]]]

\* blob.getvalue(): AttributeError on a str
GetValue(blob) ==
    IF blob.type = "BytesIO" THEN [raised |-> FALSE, value |-> blob.report]
    ELSE [raised |-> TRUE]

\* an error object printed by the report CLI
CliError(error, status) == [error |-> error, statusCode |-> status]

\* main() of the report CLI: what it writes to stdout and its exit status.
\* env: os.environ; ai_available: ai_summary could be imported; ai_fails:
\* generate_executive_summary raises
report_cli_main(env, ai_available, ai_fails) ==
    LET failed == [stdout |-> <<CliError("REPORT_GENERATION_ERROR", 500)>>, status |-> 1]
        request_json == DictGet(env, "REQUEST_BODY", Str(Obj(<<>>)))
        loaded == JsonLoads(request_json)
    IN IF loaded.raised THEN failed
       ELSE LET validated == ReportRequest(loaded.value)
            IN IF validated.raised THEN failed
               ELSE LET report_request == validated.value
                        executive_summary ==
                            IF report_request.include_ai_summary /\ ai_available /\ ~ai_fails
                            THEN "generated" ELSE None
                        format_type == report_request.format
                    IN IF format_type \notin {"word", "html", "markdown", "text"}
                       THEN [stdout |-> <<CliError("INVALID_FORMAT", 400)>>, status |-> 1]
                       ELSE LET blob ==
                                    IF format_type = "word"
                                    THEN WordReport(report_request.audit_data,
                                                    report_request.template,
                                                    executive_summary,
                                                    report_request.locale)
                                    ELSE TextReport(format_type, report_request.audit_data,
                                                    executive_summary, report_request.locale)
                            IN IF blob.raised THEN failed
                               ELSE LET written == GetValue(blob.value)
                                    IN IF written.raised THEN failed
                                       ELSE [stdout |-> <<written.value>>, status |-> 0]

report_cli ==
    /\ cli_in.program = "report"
    /\ cli_status = Running
    /\ LET run == report_cli_main(cli_in.environ, cli_in.ai_available, cli_in.ai_fails)
       IN /\ cli_stdout' = run.stdout
          /\ cli_status' = Exited(run.status)
    /\ UNCHANGED cli_in

\* os.path.abspath(args.file_path), the process running in /srv
Abspath(path) == "/srv/" \o path

\* main() of the audit CLI up to the call of the auditor: the existence test
\* of the CLI, then the auditor named by the command
audit_cli_call ==
    /\ cli_in.program = "audit"
    /\ cli_status = Running
    /\ pc = "idle"
    /\ LET file_path_abs == Abspath(cli_in.file_path)
       IN IF cli_in.file_state = "missing"
          THEN /\ cli_stdout' = <<not_found_error(file_path_abs)>>
               /\ cli_status' = Exited(1)
               /\ UNCHANGED <<auditVars, cli_in>>
          ELSE /\ IF cli_in.command = "audit_docx"
                  THEN audit_docx_accessibility(file_path_abs, cli_in.detailed,
                                                cli_in.file_state)
                  ELSE audit_pdf_accessibility(file_path_abs, cli_in.detailed,
                                               cli_in.file_state)
               /\ UNCHANGED cliVars

\* main() of the audit CLI after the auditor: print_json(result), or the
\* except clause when the auditor raised; a main that returns exits with 0
audit_cli_print ==
    /\ cli_in.program = "audit"
    /\ cli_status = Running
    /\ pc = "done"
    /\ IF outcome = "raised"
       THEN /\ cli_stdout' = Append(cli_stdout,
                                    [error |-> "raised", file |-> file_path])
            /\ cli_status' = Exited(1)
       ELSE /\ cli_stdout' = Append(cli_stdout, result)
            /\ cli_status' = Exited(0)
    /\ UNCHANGED <<auditVars, cli_in>>

(***************************************************************************)
(* Specifications                                                          *)
(***************************************************************************)
vars == <<auditVars, checkVars, reportVars, handlerVars, concurrentVars, cliVars>>

\* the auditors
Init == AuditInit /\ CheckIdle /\ ReportIdle /\ HandlerIdle /\ ConcurrentIdle /\ CliIdle

Next ==
    \/ (AuditDocx /\ UNCHANGED <<checkVars, reportVars, handlerVars, concurrentVars, cliVars>>)
    \/ (AuditPdf /\ UNCHANGED <<checkVars, reportVars, handlerVars, concurrentVars, cliVars>>)
    \/ (Call_check_heading_structure /\ UNCHANGED <<checkVars, reportVars, handlerVars, concurrentVars, cliVars>>)
    \/ (Call_check_docx_alt_text_full /\ UNCHANGED <<checkVars, reportVars, handlerVars, concurrentVars, cliVars>>)
    \/ (Call_check_docx_tables_full /\ UNCHANGED <<checkVars, reportVars, handlerVars, concurrentVars, cliVars>>)
    \/ (Call_check_hyperlinks /\ UNCHANGED <<checkVars, reportVars, handlerVars, concurrentVars, cliVars>>)
    \/ (Call_check_docx_language /\ UNCHANGED <<checkVars, reportVars, handlerVars, concurrentVars, cliVars>>)
    \/ (Call_check_docx_title /\ UNCHANGED <<checkVars, reportVars, handlerVars, concurrentVars, cliVars>>)
    \/ (Call_check_list_structure /\ UNCHANGED <<checkVars, reportVars, handlerVars, concurrentVars, cliVars>>)
    \/ (Call_check_text_formatting /\ UNCHANGED <<checkVars, reportVars, handlerVars, concurrentVars, cliVars>>)
    \/ (Call_check_document_structure /\ UNCHANGED <<checkVars, reportVars, handlerVars, concurrentVars, cliVars>>)
    \/ (Call_check_alternative_text /\ UNCHANGED <<checkVars, reportVars, handlerVars, concurrentVars, cliVars>>)
    \/ (Call_check_language_settings /\ UNCHANGED <<checkVars, reportVars, handlerVars, concurrentVars, cliVars>>)
    \/ (Call_check_document_title /\ UNCHANGED <<checkVars, reportVars, handlerVars, concurrentVars, cliVars>>)
    \/ (Call_check_tagged_pdf /\ UNCHANGED <<checkVars, reportVars, handlerVars, concurrentVars, cliVars>>)
    \/ (Call_check_reading_order_detailed /\ UNCHANGED <<checkVars, reportVars, handlerVars, concurrentVars, cliVars>>)
    \/ (Call_check_form_fields /\ UNCHANGED <<checkVars, reportVars, handlerVars, concurrentVars, cliVars>>)
    \/ (Call_check_tables /\ UNCHANGED <<checkVars, reportVars, handlerVars, concurrentVars, cliVars>>)
    \/ (Call_check_color_contrast_pdf /\ UNCHANGED <<checkVars, reportVars, handlerVars, concurrentVars, cliVars>>)
    \/ (Return /\ UNCHANGED <<checkVars, reportVars, handlerVars, concurrentVars, cliVars>>)

Spec == Init /\ [][Next]_vars

\* the categorization stage on its own, given any list of collected issues
LooseIssues ==
    {[wcag_principle |-> p, severity |-> "minor"] : p \in PrincipleSet \cup {"Other"}}
    \cup {[severity |-> "minor"]}

MaxCollected == 3

InitCategorize ==
    /\ pc = "checks"
    /\ kind \in {"docx", "pdf"}
    /\ file_path \in FilePaths
    /\ file_state = "ok"
    /\ detailed = FALSE
    /\ metadata = <<>>
    /\ step = Len(Checks) + 1
    /\ issues \in SeqsUpTo(LooseIssues, MaxCollected)
    /\ log = <<>>
    /\ outcome = "none"
    /\ result = NoResult
    /\ CheckIdle /\ ReportIdle /\ HandlerIdle /\ ConcurrentIdle /\ CliIdle

NextCategorize == Return /\ UNCHANGED <<checkVars, reportVars, handlerVars, concurrentVars, cliVars>>

SpecCategorize == InitCategorize /\ [][NextCategorize]_vars

\* the check functions on their own
CheckInputs ==
    [fn : {"check_heading_structure"}, doc : HeadingDocs, fail : EarlyFail]
    \cup [fn : {"check_docx_title"}, doc : TitleDocs, fail : EarlyFail]
    \cup [fn : {"check_document_title"}, doc : PdfMetadatas, fail : EarlyFail]
    \cup [fn : {"check_hyperlinks"}, doc : RunDocs, fail : EarlyFail]
    \cup [fn : {"check_docx_tables_full"}, doc : TableDocs, fail : {"none", "early", "rows"}]
    \cup [fn : {"check_document_structure"}, doc : StructureDocs,
          fail : {"none", "open", "outline", "close"}]

InitChecks ==
    /\ AuditInit /\ ReportIdle /\ HandlerIdle /\ ConcurrentIdle /\ CliIdle
    /\ check_in \in CheckInputs
    /\ check_out = NoResult

NextChecks ==
    \/ (Apply_check_heading_structure /\ UNCHANGED <<auditVars, reportVars, handlerVars, concurrentVars, cliVars>>)
    \/ (Apply_check_docx_title /\ UNCHANGED <<auditVars, reportVars, handlerVars, concurrentVars, cliVars>>)
    \/ (Apply_check_document_title /\ UNCHANGED <<auditVars, reportVars, handlerVars, concurrentVars, cliVars>>)
    \/ (Apply_check_hyperlinks /\ UNCHANGED <<auditVars, reportVars, handlerVars, concurrentVars, cliVars>>)
    \/ (Apply_check_docx_tables_full /\ UNCHANGED <<auditVars, reportVars, handlerVars, concurrentVars, cliVars>>)
    \/ (Apply_check_document_structure /\ UNCHANGED <<auditVars, reportVars, handlerVars, concurrentVars, cliVars>>)

SpecChecks == InitChecks /\ [][NextChecks]_vars

\* the renderers
InitReport ==
    /\ AuditInit /\ CheckIdle /\ HandlerIdle /\ ConcurrentIdle /\ CliIdle
    /\ request \in [audit_data : AuditDatas, locale : Locales]
    /\ report = [format |-> "none"]

NextReport ==
    \/ (generate_html_report /\ UNCHANGED <<auditVars, checkVars, handlerVars, concurrentVars, cliVars>>)
    \/ (generate_markdown_report /\ UNCHANGED <<auditVars, checkVars, handlerVars, concurrentVars, cliVars>>)
    \/ (generate_text_report /\ UNCHANGED <<auditVars, checkVars, handlerVars, concurrentVars, cliVars>>)
    \/ (generate_word_report /\ UNCHANGED <<auditVars, checkVars, handlerVars, concurrentVars, cliVars>>)

SpecReport == InitReport /\ [][NextReport]_vars

\* two audit invocations in flight together
InitConcurrent == AuditInit /\ CheckIdle /\ ReportIdle /\ HandlerIdle /\ ConcurrentIdle /\ CliIdle

NextConcurrent ==
    \/ \E i \in Invocations :
          Begin(i) /\ UNCHANGED <<auditVars, checkVars, reportVars, handlerVars, cliVars>>
    \/ \E i \in Invocations :
          Step(i) /\ UNCHANGED <<auditVars, checkVars, reportVars, handlerVars, cliVars>>
    \/ \E i \in Invocations :
          End(i) /\ UNCHANGED <<auditVars, checkVars, reportVars, handlerVars, cliVars>>

SpecConcurrent == InitConcurrent /\ [][NextConcurrent]_vars

\* the report handler
HandlerIssue(severity, source) ==
    [wcag_principle |-> "Perceivable", success_criterion |-> "1.1.1",
     severity |-> severity, description |-> "Image missing alt text",
     detection_source |-> source, remediation |-> "Add alt text to image"]

HandlerAuditData(report_issues) ==
    [input_type |-> "url", created_at |-> "2024-01-01T00:00:00",
     total_issues |-> Len(report_issues), issues |-> report_issues]

HandlerAuditDatas ==
    {HandlerAuditData(<<>>),
     HandlerAuditData(<<HandlerIssue("critical", "axe-core"),
                        HandlerIssue("minor", "ai-heuristic")>>)}

\* audit data the schema rejects: a missing field, a foreign detection source
RejectedAuditDatas ==
    {[input_type |-> "url", created_at |-> "2024-01-01T00:00:00", issues |-> <<>>],
     HandlerAuditData(<<HandlerIssue("critical", "docx-image-check")>>),
     HandlerAuditData(<<HandlerIssue("info", "axe-core")>>)}

\* a request dict of optional keys: the record without the keys left out
RequestDict(audit_id, template, audit_data, locale, include_ai_summary) ==
    LET all == [audit_id |-> audit_id, template |-> template,
                audit_data |-> audit_data, locale |-> locale,
                include_ai_summary |-> include_ai_summary]
        keys == {k \in DOMAIN all :
                   ~(k = "audit_id" /\ audit_id = None)
                   /\ ~(k = "template" /\ template = None)
                   /\ ~(k = "audit_data" /\ audit_data = [absent |-> TRUE])
                   /\ ~(k = "locale" /\ locale = None)
                   /\ ~(k = "include_ai_summary" /\ include_ai_summary = None)}
    IN [k \in keys |-> all[k]]

AcceptedRequests ==
    {RequestDict(id, t, a, "en-US", ai) :
        id \in {"test-123"}, t \in Templates \cup {None}, a \in HandlerAuditDatas,
        ai \in {None, "off"}}
    \cup {RequestDict("audit-7", "markdown", HandlerAuditData(<<>>), None, "off"),
          RequestDict("audit-7", "text", HandlerAuditData(<<>>), None, None)}

RejectedRequests ==
    {RequestDict(None, "html", HandlerAuditData(<<>>), "en-US", "off"),
     RequestDict("test-123", "html", [absent |-> TRUE], "en-US", "off"),
     RequestDict("test-123", "pdf", HandlerAuditData(<<>>), "en-US", "off"),
     RequestDict("test-123", "html", HandlerAuditData(<<>>), "fr-FR", "off")}
    \cup {RequestDict("test-123", "html", a, "en-US", "off") : a \in RejectedAuditDatas}

\* include_ai_summary as the request writes it
WithAiFlag(d) ==
    IF "include_ai_summary" \in DOMAIN d
    THEN [d EXCEPT !.include_ai_summary = FALSE] ELSE d

Bodies ==
    {Str(Obj(WithAiFlag(d))) : d \in AcceptedRequests \cup RejectedRequests}
    \cup {Obj(WithAiFlag(d)) : d \in {RequestDict("test-123", "text",
                                           HandlerAuditData(<<>>), "en-US", "off")}}
    \cup {Str(Malformed), Str(Arr(<<>>)), Str(Null), Null}

HeaderMaps ==
    {Null, Obj(<<>>),
     Obj([k \in {"X-Report-Service-Key"} |-> "test-key-123"]),
     Obj([k \in {"X-Report-Service-Key"} |-> "wrong-key"]),
     Obj([k \in {"x-report-service-key"} |-> "test-key-123"]),
     Obj([k \in {"x-report-service-key", "X-Report-Service-Key"} |->
            IF k = "x-report-service-key" THEN "" ELSE "test-key-123"]),
     Obj([k \in {"x-report-service-key", "X-Report-Service-Key"} |->
            IF k = "x-report-service-key" THEN "wrong-key" ELSE "test-key-123"])}

QueryMaps ==
    {Null, Obj(<<>>)} \cup
    {Obj([k \in {"format"} |-> f]) : f \in {"", "html", "markdown", "text", "word", "pdf"}}

\* an event dict: the record without the keys left out
EventDict(method, hdrs, query, body) ==
    LET all == [httpMethod |-> method, headers |-> hdrs,
                queryStringParameters |-> query, body |-> body]
        keys == {k \in DOMAIN all :
                   ~(k = "httpMethod" /\ method = None)
                   /\ ~(k = "headers" /\ hdrs = [absent |-> TRUE])
                   /\ ~(k = "queryStringParameters" /\ query = [absent |-> TRUE])
                   /\ ~(k = "body" /\ body = [absent |-> TRUE])}
    IN [k \in keys |-> all[k]]

Events ==
    {EventDict(m, h, q, b) :
        m \in {"OPTIONS", "GET", "POST", None},
        h \in HeaderMaps \cup {[absent |-> TRUE]},
        q \in QueryMaps \cup {[absent |-> TRUE]},
        b \in Bodies \cup {[absent |-> TRUE]}}

InitHandler ==
    /\ AuditInit /\ CheckIdle /\ ReportIdle /\ ConcurrentIdle /\ CliIdle
    /\ event \in Events
    /\ environ \in [REPORT_SERVICE_KEY : {None, "", "test-key-123"}]
    /\ response = [pending |-> TRUE]
    /\ summary_raises = FALSE

NextHandler == handler /\ UNCHANGED <<auditVars, checkVars, concurrentVars, cliVars>>

SpecHandler == InitHandler /\ [][NextHandler]_vars

\* the report CLI: requests with and without a 'format'
WithFormat(d, f) ==
    [k \in DOMAIN d \cup {"format"} |-> IF k = "format" THEN f ELSE d[k]]

CliRequests ==
    LET plain == {WithAiFlag(d) : d \in AcceptedRequests \cup RejectedRequests}
    IN plain \cup {WithFormat(d, f) : d \in plain,
                                       f \in {"word", "html", "markdown", "text", "pdf"}}

CliEnvirons ==
    {[REQUEST_BODY |-> Str(Obj(d))] : d \in CliRequests}
    \cup {[REQUEST_BODY |-> Str(Malformed)], [REQUEST_BODY |-> Str(Arr(<<>>))],
          [HOME |-> Str(Null)]}

InitReportCli ==
    /\ AuditInit /\ CheckIdle /\ ReportIdle /\ HandlerIdle /\ ConcurrentIdle
    /\ cli_in \in [program : {"report"}, environ : CliEnvirons,
                   ai_available : BOOLEAN, ai_fails : BOOLEAN]
    /\ cli_stdout = <<>>
    /\ cli_status = Running

NextReportCli ==
    report_cli /\ UNCHANGED <<auditVars, checkVars, reportVars, handlerVars, concurrentVars>>

SpecReportCli == InitReportCli /\ [][NextReportCli]_vars

\* the audit CLI: the command line and the state of the file it names
InitAuditCli ==
    /\ AuditInit /\ CheckIdle /\ ReportIdle /\ HandlerIdle /\ ConcurrentIdle
    /\ cli_in \in [program : {"audit"}, command : {"audit_docx", "audit_pdf"},
                   file_path : FilePaths, detailed : BOOLEAN, file_state : FileStates]
    /\ cli_stdout = <<>>
    /\ cli_status = Running

NextAuditCli ==
    \/ (audit_cli_call /\ UNCHANGED <<checkVars, reportVars, handlerVars, concurrentVars>>)
    \/ (Call_check_heading_structure /\ UNCHANGED <<checkVars, reportVars, handlerVars, concurrentVars, cliVars>>)
    \/ (Call_check_docx_alt_text_full /\ UNCHANGED <<checkVars, reportVars, handlerVars, concurrentVars, cliVars>>)
    \/ (Call_check_docx_tables_full /\ UNCHANGED <<checkVars, reportVars, handlerVars, concurrentVars, cliVars>>)
    \/ (Call_check_hyperlinks /\ UNCHANGED <<checkVars, reportVars, handlerVars, concurrentVars, cliVars>>)
    \/ (Call_check_docx_language /\ UNCHANGED <<checkVars, reportVars, handlerVars, concurrentVars, cliVars>>)
    \/ (Call_check_docx_title /\ UNCHANGED <<checkVars, reportVars, handlerVars, concurrentVars, cliVars>>)
    \/ (Call_check_list_structure /\ UNCHANGED <<checkVars, reportVars, handlerVars, concurrentVars, cliVars>>)
    \/ (Call_check_text_formatting /\ UNCHANGED <<checkVars, reportVars, handlerVars, concurrentVars, cliVars>>)
    \/ (Call_check_document_structure /\ UNCHANGED <<checkVars, reportVars, handlerVars, concurrentVars, cliVars>>)
    \/ (Call_check_alternative_text /\ UNCHANGED <<checkVars, reportVars, handlerVars, concurrentVars, cliVars>>)
    \/ (Call_check_language_settings /\ UNCHANGED <<checkVars, reportVars, handlerVars, concurrentVars, cliVars>>)
    \/ (Call_check_document_title /\ UNCHANGED <<checkVars, reportVars, handlerVars, concurrentVars, cliVars>>)
    \/ (Call_check_tagged_pdf /\ UNCHANGED <<checkVars, reportVars, handlerVars, concurrentVars, cliVars>>)
    \/ (Call_check_reading_order_detailed /\ UNCHANGED <<checkVars, reportVars, handlerVars, concurrentVars, cliVars>>)
    \/ (Call_check_form_fields /\ UNCHANGED <<checkVars, reportVars, handlerVars, concurrentVars, cliVars>>)
    \/ (Call_check_tables /\ UNCHANGED <<checkVars, reportVars, handlerVars, concurrentVars, cliVars>>)
    \/ (Call_check_color_contrast_pdf /\ UNCHANGED <<checkVars, reportVars, handlerVars, concurrentVars, cliVars>>)
    \/ (Return /\ UNCHANGED <<checkVars, reportVars, handlerVars, concurrentVars, cliVars>>)
    \/ (audit_cli_print /\ UNCHANGED <<checkVars, reportVars, handlerVars, concurrentVars>>)

SpecAuditCli == InitAuditCli /\ [][NextAuditCli]_vars

(***************************************************************************)
(* Properties                                                              *)
(***************************************************************************)
AuditResultKeys == {"file", "metadata", "total_issues", "perceivable_count",
                    "operable_count", "understandable_count", "robust_count",
                    "issues", "issues_by_principle"}

IsAuditResult(r) == DOMAIN r = AuditResultKeys

ReturnedAuditResult == pc = "done" /\ outcome = "returned" /\ IsAuditResult(result)

\* C1 (as stated): every audit call returns without raising, and the
\* returned object is either a complete AuditResult without an 'error' key or
\* an error object with an 'error' key and none of the AuditResult keys.
C1_ErrorHasNoAuditKey ==
    pc = "done" =>
        /\ outcome = "returned"
        /\ \/ IsAuditResult(result)
           \/ "error" \in DOMAIN result /\ DOMAIN result \cap AuditResultKeys = {}

\* C1 (amended): every audit call returns without raising, and the returned
\* object is either a complete AuditResult without an 'error' key or an error
\* object whose keys are 'error' and, at most, 'file'; no other mix of the
\* two shapes is returned.
C1_ResultOrError ==
    pc = "done" =>
        /\ outcome = "returned"
        /\ \/ IsAuditResult(result)
           \/ "error" \in DOMAIN result /\ DOMAIN result \subseteq {"error", "file"}

C1_Witness ==
    /\ pc = "done"
    /\ file_state = "corrupt"
    /\ DOMAIN result = {"error", "file"}

\* C2: an audit of a path that does not exist does not raise and returns an
\* object with an 'error' key and a 'file' key whose value is the given path.
C2_MissingFileNamesPath ==
    (pc = "done" /\ file_state = "missing") =>
        /\ outcome = "returned"
        /\ "error" \in DOMAIN result
        /\ "file" \in DOMAIN result
        /\ result.file = file_path

\* number of positions of seq holding x
Occurrences(seq, x) == Cardinality({i \in 1..Len(seq) : seq[i] = x})

RECURSIVE SumOver(_, _)
SumOver(f, S) ==
    IF S = {} THEN 0
    ELSE LET x == CHOOSE y \in S : TRUE IN f[x] + SumOver(f, S \ {x})

\* C3: in every returned AuditResult issues_by_principle is a partition of
\* issues: the bucket lengths sum to len(issues) and every issue occurs in
\* exactly one bucket, as often as in issues.
C3_Partition ==
    ReturnedAuditResult =>
        LET buckets == result.issues_by_principle
        IN /\ DOMAIN buckets = PrincipleSet
           /\ SumOver([p \in PrincipleSet |-> Len(buckets[p])], PrincipleSet)
                = Len(result.issues)
           /\ \A k \in 1..Len(result.issues) :
                LET x == result.issues[k]
                IN /\ Cardinality({p \in PrincipleSet : Occurrences(buckets[p], x) > 0}) = 1
                   /\ SumOver([p \in PrincipleSet |-> Occurrences(buckets[p], x)],
                              PrincipleSet) = Occurrences(result.issues, x)

C3_Witness ==
    /\ ReturnedAuditResult
    /\ Len(result.issues) >= 3
    /\ Len(result.issues_by_principle["Robust"]) >= 1
    /\ Len(result.issues_by_principle["Perceivable"]) >= 1
    /\ Len(result.issues_by_principle["Operable"]) >= 1

\* C4: in every returned AuditResult total_issues equals len(issues).
C4_TotalIsLength ==
    ReturnedAuditResult => result.total_issues = Len(result.issues)

C4_Witness ==
    /\ ReturnedAuditResult
    /\ result.total_issues >= 2
    /\ result.total_issues > result.perceivable_count

\* number of issues of seq whose wcag_principle is p
WithPrinciple(seq, p) ==
    Cardinality({i \in 1..Len(seq) : DictGet(seq[i], "wcag_principle", None) = p})

\* C5: in every returned AuditResult each of the four counts equals the length
\* of its issues_by_principle bucket and the number of issues with that
\* principle.
C5_CountsMatchBuckets ==
    ReturnedAuditResult =>
        LET counts == [p \in PrincipleSet |->
                         CASE p = "Perceivable" -> result.perceivable_count
                           [] p = "Operable" -> result.operable_count
                           [] p = "Understandable" -> result.understandable_count
                           [] OTHER -> result.robust_count]
        IN \A p \in PrincipleSet :
              /\ counts[p] = Len(result.issues_by_principle[p])
              /\ counts[p] = WithPrinciple(result.issues, p)

C5_Witness ==
    /\ ReturnedAuditResult
    /\ result.operable_count = 2
    /\ result.understandable_count = 1
    /\ result.perceivable_count >= 1

C7_ChecksContinue ==
    (file_state = "ok" /\ \E i \in 1..Len(log) : log[i].failed) =>
        /\ \A i \in 1..Len(log) : i <= Len(Checks) /\ log[i].check = Checks[i]
        /\ pc = "checks" => (outcome = "none" /\ step = Len(log) + 1)
        /\ pc = "done" => (Len(log) = Len(Checks) /\ outcome = "returned"
                           /\ IsAuditResult(result))
        /\ pc \in {"checks", "done"}

C7_Witness ==
    /\ ReturnedAuditResult
    /\ kind = "docx"
    /\ log[3].check = "check_docx_tables_full" /\ log[3].failed
    /\ log[4].issues # <<>>
    /\ Len(log) = 8

RECURSIVE Contributions(_)
Contributions(entries) ==
    IF entries = <<>> THEN <<>> ELSE Head(entries).issues \o Contributions(Tail(entries))

IsPrefix(a, b) == Len(a) <= Len(b) /\ SubSeq(b, 1, Len(a)) = a

\* C8 (as stated): a check that fails internally contributes zero issues.
C8_FailedCheckContributesNothing ==
    \A i \in 1..Len(log) : log[i].failed => log[i].issues = <<>>

\* C8 (amended): a check that fails internally contributes exactly the issues
\* it appended before the failure, a prefix of what it returns when nothing
\* fails, and these appear in the returned issues; check_heading_structure
\* has no failing operation after an append and contributes zero.
C8_FailedCheckKeepsEarlierIssues ==
    /\ \A i \in 1..Len(log) :
          log[i].failed =>
             /\ IsPrefix(log[i].issues, log[i].intact)
             /\ log[i].check = "check_heading_structure" => log[i].issues = <<>>
    /\ issues = Contributions(log)
    /\ ReturnedAuditResult => result.issues = Contributions(log)

C8_Witness ==
    /\ ReturnedAuditResult
    /\ log[1].check = "check_document_structure"
    /\ log[1].failed
    /\ log[1].issues = <<PdfNoBookmarksIssue>>
    /\ Len(log[1].intact) = 2
    /\ result.issues[1] = PdfNoBookmarksIssue

\* the status of an audit by severity priority, in English
StatusByPriority(audit_data) ==
    IF \E i \in 1..Len(audit_data.issues) : audit_data.issues[i].severity = "critical"
    THEN "Non-Compliant"
    ELSE IF \E i \in 1..Len(audit_data.issues) : audit_data.issues[i].severity = "serious"
    THEN "Partially Compliant"
    ELSE IF audit_data.total_issues > 0 THEN "Mostly Compliant"
    ELSE "Fully Compliant"

\* how a renderer writes a status: localised, upper-cased by the text
\* renderer, prefixed with an emoji by the Markdown renderer
StatusShown(format, status, locale) ==
    LET localised ==
            IF locale = "en-US" THEN status
            ELSE CASE status = "Non-Compliant" -> "Ej efterlevnad"
                   [] status = "Partially Compliant" -> "Delvis efterlevnad"
                   [] status = "Mostly Compliant" -> "Huvudsakligen efterlevnad"
                   [] OTHER -> "Fullt efterlevnad"
        upper ==
            CASE localised = "Non-Compliant" -> "NON-COMPLIANT"
              [] localised = "Partially Compliant" -> "PARTIALLY COMPLIANT"
              [] localised = "Mostly Compliant" -> "MOSTLY COMPLIANT"
              [] localised = "Fully Compliant" -> "FULLY COMPLIANT"
              [] localised = "Ej efterlevnad" -> "EJ EFTERLEVNAD"
              [] localised = "Delvis efterlevnad" -> "DELVIS EFTERLEVNAD"
              [] localised = "Huvudsakligen efterlevnad" -> "HUVUDSAKLIGEN EFTERLEVNAD"
              [] OTHER -> "FULLT EFTERLEVNAD"
        emoji ==
            CASE status = "Non-Compliant" -> "(red) "
              [] status = "Partially Compliant" -> "(yellow) "
              [] status = "Mostly Compliant" -> "(green) "
              [] OTHER -> "(check) "
    IN CASE format = "text" -> upper
         [] format = "markdown" -> emoji \o localised
         [] OTHER -> localised

\* C9: each of the four renderers derives the status by severity priority
\* (critical: Non-Compliant; else serious: Partially Compliant; else
\* total_issues > 0: Mostly Compliant; else Fully Compliant), existence
\* gating each step, and all four show the same status for the same audit.
C9_StatusBySeverityPriority ==
    report.format # "none" =>
        LET status == StatusByPriority(request.audit_data)
            a == request.audit_data
            l == request.locale
        IN /\ report.status = StatusShown(report.format, status, l)
           /\ html_status(a, l) = StatusShown("html", status, l)
           /\ markdown_status(a, l) = StatusShown("markdown", status, l)
           /\ text_status(a, l) = StatusShown("text", status, l)
           /\ word_status(a, l) = StatusShown("word", status, l)

C9_Witness ==
    /\ report.format = "word"
    /\ request.locale = "en-US"
    /\ Len(request.audit_data.issues) = 4
    /\ CountSeverity(request.audit_data.issues, "critical") = 1
    /\ CountSeverity(request.audit_data.issues, "minor") = 3
    /\ report.status = "Non-Compliant"

\* the levels of the paragraphs with a numbered heading style, in order
LevelsOf(styles) ==
    LET Numbered(st) == st \in {"Heading 1", "Heading 2", "Heading 3",
                                "Heading 4", "Heading 5"}
        sel == SelectSeq(styles, Numbered)
    IN [i \in 1..Len(sel) |-> HeadingLevel(sel[i])]

IsSkipIssue(issue) ==
    /\ issue.severity = "moderate"
    /\ issue.wcag_principle = "Perceivable"
    /\ issue.detection_source = "docx-heading-check"

\* C10: check_heading_structure emits exactly one moderate Perceivable
\* 'docx-heading-check' issue when some heading level exceeds the previous
\* level by more than 1 and none otherwise, never more than one, and the
\* issue names the first skip in document order.
C10_OneHeadingSkipIssue ==
    (check_in.fn = "check_heading_structure" /\ check_out # NoResult
        /\ ~check_out.failed) =>
        LET levels == LevelsOf(check_in.doc.styles)
            skips == {i \in 2..Len(levels) : levels[i] > levels[i-1] + 1}
            found == SelectSeq(check_out.issues, IsSkipIssue)
        IN /\ Len(found) = IF skips = {} THEN 0 ELSE 1
           /\ skips # {} =>
                LET first == CHOOSE i \in skips : \A j \in skips : i <= j
                IN found[1].description_args = <<levels[first - 1], levels[first]>>

C10_Witness ==
    /\ check_in.fn = "check_heading_structure"
    /\ check_out # NoResult
    /\ LevelsOf(check_in.doc.styles) = <<1, 3, 5>>
    /\ check_out.issues = <<HeadingSkipIssue(1, 3)>>

\* C11: the title check (check_docx_title, check_document_title) yields
\* exactly one serious Operable issue when the title is absent, empty or
\* whitespace-only, and no issue when the title is non-empty.
C11_TitleIssue ==
    (check_in.fn \in {"check_docx_title", "check_document_title"}
        /\ check_out # NoResult /\ ~check_out.failed) =>
        LET title == IF check_in.fn = "check_docx_title" THEN check_in.doc.title
                     ELSE IF "/Title" \in DOMAIN check_in.doc.metadata
                     THEN check_in.doc.metadata["/Title"] ELSE None
            blank == title \in {None, "", "  "}
        IN IF blank
           THEN /\ Len(check_out.issues) = 1
                /\ check_out.issues[1].severity = "serious"
                /\ check_out.issues[1].wcag_principle = "Operable"
                /\ check_out.issues[1].success_criterion = "2.4.2"
           ELSE check_out.issues = <<>>

C11_Witness ==
    /\ check_in.fn = "check_docx_title"
    /\ check_in.doc.title = "  "
    /\ check_out # NoResult
    /\ check_out.issues = <<DocxTitleIssue>>

\* the run texts that read as a denylist entry once trimmed and lowercased
DenylistedAsRead == {" Click Here ", "  CLICK HERE", "HERE", " here", "Read More", "more"}

\* C12: check_hyperlinks flags a document exactly when some underlined run's
\* text, trimmed and lowercased, is in the denylist ('click here' in any case
\* and padding is flagged, 'Download the 2023 accessibility report' is not),
\* and all matches are reported as one single moderate Operable issue.
C12_OneLinkIssue ==
    (check_in.fn = "check_hyperlinks" /\ check_out # NoResult /\ ~check_out.failed) =>
        LET runs == check_in.doc.runs
            matches == {i \in 1..Len(runs) :
                          runs[i].underline /\ runs[i].text \in DenylistedAsRead}
        IN IF matches = {}
           THEN check_out.issues = <<>>
           ELSE /\ Len(check_out.issues) = 1
                /\ check_out.issues[1].severity = "moderate"
                /\ check_out.issues[1].wcag_principle = "Operable"
                /\ check_out.issues[1].detection_source = "docx-link-check"
                /\ check_out.issues[1].description_args = <<Cardinality(matches)>>

C12_Witness ==
    /\ check_in.fn = "check_hyperlinks"
    /\ check_out # NoResult
    /\ check_in.doc.runs = <<[underline |-> TRUE, text |-> "  CLICK HERE"],
                             [underline |-> TRUE, text |-> " here"]>>
    /\ check_out.issues = <<DocxLinksIssue(2)>>

C12_WitnessDescriptive ==
    /\ check_in.fn = "check_hyperlinks"
    /\ check_out # NoResult /\ ~check_out.failed
    /\ check_in.doc.runs = <<[underline |-> TRUE,
                              text |-> "Download the 2023 accessibility report"]>>
    /\ check_out.issues = <<>>

IsContrastReminder(issue) ==
    /\ issue.wcag_principle = "Perceivable"
    /\ issue.severity = "minor"
    /\ issue.detection_source = "pdf-contrast-check"

\* C13: every successful PDF audit contains exactly one contrast-reminder
\* issue (Perceivable, minor, 'pdf-contrast-check'), for detailed = true and
\* detailed = false alike and whatever the document contains.
C13_ContrastReminderAlways ==
    (ReturnedAuditResult /\ kind = "pdf") =>
        Len(SelectSeq(result.issues, IsContrastReminder)) = 1

\* C14: check_docx_tables_full emits exactly one moderate Perceivable
\* table-reminder issue whenever the document contains at least one table,
\* whatever the row count of any table (a first table with zero rows
\* included), and no issue when the document has no table.
C14_OneTableReminder ==
    (check_in.fn = "check_docx_tables_full" /\ check_out # NoResult
        /\ ~check_out.failed) =>
        IF Len(check_in.doc.rows) >= 1
        THEN /\ Len(check_out.issues) = 1
             /\ check_out.issues[1].severity = "moderate"
             /\ check_out.issues[1].wcag_principle = "Perceivable"
             /\ check_out.issues[1].detection_source = "docx-table-check"
        ELSE check_out.issues = <<>>

\* the issues the checks of this audit emitted, in emission order
Emitted == Contributions(log)

\* C16: every issue emitted by a DOCX or PDF check carries a wcag_principle
\* among Perceivable, Operable, Understandable, Robust and a severity among
\* critical, serious, moderate, minor; neither field is missing or outside
\* its enumeration.
C16_IssueEnumerations ==
    \A k \in 1..Len(Emitted) :
        /\ "wcag_principle" \in DOMAIN Emitted[k]
        /\ Emitted[k].wcag_principle
              \in {"Perceivable", "Operable", "Understandable", "Robust"}
        /\ "severity" \in DOMAIN Emitted[k]
        /\ Emitted[k].severity \in {"critical", "serious", "moderate", "minor"}

C16_Witness ==
    /\ pc = "done"
    /\ kind = "pdf"
    /\ {Emitted[k].wcag_principle : k \in 1..Len(Emitted)}
          = {"Perceivable", "Operable", "Understandable", "Robust"}
    /\ {Emitted[k].severity : k \in 1..Len(Emitted)}
          = {"critical", "serious", "moderate", "minor"}

Responded == response # [pending |-> TRUE]

\* the handler answered with this status and this error code
Answered(status, error) ==
    /\ "statusCode" \in DOMAIN response
    /\ response.statusCode = status
    /\ response.body = [error |-> error]

\* the service keys the event supplies, under either spelling of the header
SuppliedKeys ==
    IF "headers" \in DOMAIN event /\ event.headers.type = "object"
    THEN {event.headers.items[k] : k \in DOMAIN event.headers.items} \ {""}
    ELSE {}

ConfiguredKey == environ.REPORT_SERVICE_KEY

\* the body gates of C17: unparseable text, then a rejected request
BodyGates ==
    LET body == IF "body" \in DOMAIN event THEN event.body ELSE Str(Obj(<<>>))
    IN IF body.type = "str" /\ body.denotes = Malformed
       THEN Answered(400, "INVALID_JSON")
       ELSE LET data == IF body.type = "str" THEN body.denotes ELSE body
                accepted == /\ data.type = "object"
                            /\ data.items \in {WithAiFlag(d) : d \in AcceptedRequests}
            IN ~accepted => Answered(400, "INVALID_REQUEST")

\* C17: the handler answers with the first failing gate, in the order
\* OPTIONS (204, empty body), other than POST (405), REPORT_SERVICE_KEY unset
\* (500 SERVER_CONFIG_ERROR), missing or non-matching key (401, body
\* unexamined), unparseable body (400 INVALID_JSON), rejected request (400
\* INVALID_REQUEST); a 200 is given only to a POST whose supplied key equals
\* the configured key.
C17_GateOrder ==
    Responded =>
        LET method == IF "httpMethod" \in DOMAIN event THEN event.httpMethod ELSE None
        IN /\ IF method = "OPTIONS"
              THEN /\ "statusCode" \in DOMAIN response
                   /\ response.statusCode = 204
                   /\ response.body = [text |-> ""]
              ELSE IF method # "POST" THEN Answered(405, "METHOD_NOT_ALLOWED")
              ELSE IF ConfiguredKey \in {None, ""}
              THEN Answered(500, "SERVER_CONFIG_ERROR")
              ELSE IF \A key \in SuppliedKeys : key # ConfiguredKey
              THEN Answered(401, "UNAUTHORIZED")
              ELSE IF \A key \in SuppliedKeys : key = ConfiguredKey
              THEN BodyGates
              ELSE Answered(401, "UNAUTHORIZED") \/ BodyGates
           /\ ("statusCode" \in DOMAIN response /\ response.statusCode = 200) =>
                 /\ method = "POST"
                 /\ ConfiguredKey \in SuppliedKeys

\* the event is a POST supplying the configured key and carrying a request
\* the schema accepts
AuthenticatedValid ==
    /\ "httpMethod" \in DOMAIN event /\ event.httpMethod = "POST"
    /\ ConfiguredKey \notin {None, ""}
    /\ SuppliedKeys = {ConfiguredKey}
    /\ "body" \in DOMAIN event
    /\ LET data == IF event.body.type = "str" THEN event.body.denotes ELSE event.body
       IN /\ data.type = "object"
          /\ data.items \in {WithAiFlag(d) : d \in AcceptedRequests}

\* the request dict of an AuthenticatedValid event
SentRequest ==
    IF event.body.type = "str" THEN event.body.denotes.items ELSE event.body.items

\* the query parameter 'format', None when absent
QueryFormat ==
    IF /\ "queryStringParameters" \in DOMAIN event
       /\ event.queryStringParameters.type = "object"
       /\ "format" \in DOMAIN event.queryStringParameters.items
    THEN event.queryStringParameters.items.format
    ELSE None

\* C18: for an authenticated valid request the format is the template's
\* (etu-* -> word, html, markdown, text -> themselves) unless a non-empty
\* query 'format' overrides it; html, markdown and text give a text body
\* (isBase64Encoded false, Content-Type text/html, text/markdown,
\* text/plain), any other format a Word document (isBase64Encoded true);
\* X-Report-ID is the request's audit_id.
C18_FormatSelection ==
    (Responded /\ AuthenticatedValid) =>
        LET template == IF "template" \in DOMAIN SentRequest
                        THEN SentRequest.template ELSE "etu-standard"
            mapped == IF template \in {"html", "markdown", "text"} THEN template
                      ELSE "word"
            format == IF QueryFormat \notin {None, ""} THEN QueryFormat ELSE mapped
        IN /\ "statusCode" \in DOMAIN response
           /\ response.statusCode = 200
           /\ response.headers["X-Report-ID"] = SentRequest.audit_id
           /\ CASE format = "html" ->
                     /\ response.body.report.format = "html"
                     /\ response.isBase64Encoded = FALSE
                     /\ response.headers["Content-Type"] = "text/html; charset=utf-8"
                [] format = "markdown" ->
                     /\ response.body.report.format = "markdown"
                     /\ response.isBase64Encoded = FALSE
                     /\ response.headers["Content-Type"] = "text/markdown; charset=utf-8"
                [] format = "text" ->
                     /\ response.body.report.format = "text"
                     /\ response.isBase64Encoded = FALSE
                     /\ response.headers["Content-Type"] = "text/plain; charset=utf-8"
                [] OTHER ->
                     /\ response.body.report.format = "word"
                     /\ response.isBase64Encoded = TRUE
                     /\ response.body.base64 = TRUE

\* the issues of seq whose principle is p, in the order of seq
OfPrinciple(seq, p) ==
    LET Has(x) == x.wcag_principle = p IN SelectSeq(seq, Has)

\* what an invocation returns when it runs alone: the error of its file, or
\* the AuditResult of the outputs its checks gave
AloneResult(f) ==
    CASE f.file_state = "missing" -> [error |-> "File not found: " \o f.file_path]
      [] f.file_state = "corrupt" ->
            [error |-> IF f.kind = "docx" THEN "Package not found"
                       ELSE "EOF marker not found",
             file |-> f.file_path]
      [] OTHER ->
            LET own == Contributions(f.log)
            IN [file |-> f.file_path,
                metadata |-> f.metadata,
                total_issues |-> Len(own),
                perceivable_count |-> Len(OfPrinciple(own, "Perceivable")),
                operable_count |-> Len(OfPrinciple(own, "Operable")),
                understandable_count |-> Len(OfPrinciple(own, "Understandable")),
                robust_count |-> Len(OfPrinciple(own, "Robust")),
                issues |-> own,
                issues_by_principle |->
                    [p \in {"Perceivable", "Operable", "Understandable", "Robust"} |->
                        OfPrinciple(own, p)]]

\* C19: audits share no mutable state: with two invocations in flight in
\* any interleaving, each holds only the issues of its own checks and
\* returns exactly what it returns when run alone, also when the other
\* invocation fails to open its document.
C19_InvocationsIsolated ==
    \A i \in Invocations :
        /\ inv[i].pc = "checks" =>
              /\ inv[i].issues = Contributions(inv[i].log)
              /\ inv[i].step = Len(inv[i].log) + 1
              /\ inv[i].result = NoResult
        /\ inv[i].pc = "done" =>
              /\ inv[i].outcome = "returned"
              /\ inv[i].result = AloneResult(inv[i])

C19_Witness ==
    /\ inv["a"].pc = "done" /\ inv["a"].kind = "docx"
    /\ inv["a"].file_state = "ok" /\ Len(inv["a"].result.issues) >= 3
    /\ inv["b"].pc = "checks" /\ inv["b"].kind = "pdf"
    /\ inv["b"].step >= 3 /\ inv["b"].issues # <<>>
    /\ inv["b"].issues # SubSeq(inv["a"].issues, 1, Len(inv["b"].issues))

\* the check order of C20
ClaimedOrder ==
    IF kind = "docx"
    THEN <<"check_heading_structure", "check_docx_alt_text_full",
           "check_docx_tables_full", "check_hyperlinks", "check_docx_language",
           "check_docx_title">>
         \o (IF detailed THEN <<"check_list_structure", "check_text_formatting">>
             ELSE <<>>)
    ELSE <<"check_document_structure", "check_alternative_text",
           "check_language_settings", "check_document_title", "check_tagged_pdf">>
         \o (IF detailed THEN <<"check_reading_order_detailed", "check_form_fields",
                                 "check_tables", "check_color_contrast_pdf">>
             ELSE <<>>)

\* C20: the issues of an AuditResult are the outputs of the checks
\* concatenated in the fixed check order of the auditor, each check having
\* run exactly once, and each issues_by_principle bucket keeps the relative
\* order of the issues.
C20_ConcatenationInCheckOrder ==
    /\ \A i \in 1..Len(log) : i <= Len(ClaimedOrder) /\ log[i].check = ClaimedOrder[i]
    /\ ReturnedAuditResult =>
          /\ [i \in 1..Len(log) |-> log[i].check] = ClaimedOrder
          /\ result.issues = Contributions(log)
          /\ \A p \in {"Perceivable", "Operable", "Understandable", "Robust"} :
                result.issues_by_principle[p] = OfPrinciple(result.issues, p)

C20_Witness ==
    /\ ReturnedAuditResult
    /\ kind = "docx" /\ detailed
    /\ log[1].issues # <<>> /\ log[2].issues # <<>>
    /\ log[6].issues # <<>> /\ log[8].issues # <<>>
    /\ Len(result.issues_by_principle["Perceivable"]) >= 3

IsNoHeadingsIssue(issue) ==
    /\ issue.severity = "serious"
    /\ issue.wcag_principle = "Perceivable"
    /\ issue.detection_source = "docx-heading-check"

\* C21: check_heading_structure emits the serious Perceivable 'no headings'
\* issue exactly when the document has zero headings and strictly more than
\* 20 paragraphs, none with 20 or fewer paragraphs or with a heading, and
\* never together with a heading-skip issue.
C21_NoHeadingsIssue ==
    (check_in.fn = "check_heading_structure" /\ check_out # NoResult
        /\ ~check_out.failed) =>
        LET levels == LevelsOf(check_in.doc.styles)
            found == SelectSeq(check_out.issues, IsNoHeadingsIssue)
            skips == SelectSeq(check_out.issues, IsSkipIssue)
        IN /\ Len(found) = IF Len(levels) = 0 /\ check_in.doc.paragraphs >= 21
                           THEN 1 ELSE 0
           /\ Len(levels) >= 1 => found = <<>>
           /\ check_in.doc.paragraphs <= 20 => found = <<>>
           /\ ~(found # <<>> /\ skips # <<>>)

C21_Witness ==
    /\ check_in.fn = "check_heading_structure"
    /\ check_out # NoResult
    /\ check_in.doc.paragraphs = 21
    /\ check_in.doc.styles = <<"Normal", "Title">>
    /\ Len(check_out.issues) = 1
    /\ IsNoHeadingsIssue(check_out.issues[1])

IsLargeTextIssue(issue) ==
    /\ issue.severity = "minor"
    /\ issue.wcag_principle = "Perceivable"
    /\ issue.detection_source = "docx-formatting-check"

\* the non-heading paragraphs that contain a run above 14pt
LargeParagraphs(paras) ==
    {i \in 1..Len(paras) :
        /\ paras[i].style \in {"Normal", "Title"}
        /\ \E k \in 1..Len(paras[i].sizes) : paras[i].sizes[k] >= 15}

\* the documents the formatting check of this audit was given
FormattingGiven ==
    {log[i].doc : i \in {j \in 1..Len(log) : log[j].check = "check_text_formatting"}}

\* C22: a DOCX audit contains the minor Perceivable 'large text not styled
\* as heading' issue exactly when detailed is true and strictly more than 3
\* non-heading paragraphs contain a run above 14pt, each paragraph counted
\* once; never with detailed false, never with 3 or fewer such paragraphs.
C22_LargeTextIssue ==
    (ReturnedAuditResult /\ kind = "docx"
        /\ \A i \in 1..Len(log) : log[i].check = "check_text_formatting" => ~log[i].failed) =>
        LET found == SelectSeq(result.issues, IsLargeTextIssue)
        IN /\ ~detailed => found = <<>> /\ FormattingGiven = {}
           /\ detailed =>
                /\ Cardinality(FormattingGiven) = 1
                /\ \A doc \in FormattingGiven :
                      /\ Len(found) = IF Cardinality(LargeParagraphs(doc.paras)) > 3
                                      THEN 1 ELSE 0
                      /\ found # <<>> =>
                            found[1].description_args
                               = <<Cardinality(LargeParagraphs(doc.paras))>>

C22_Witness ==
    /\ ReturnedAuditResult /\ kind = "docx" /\ detailed
    /\ \E doc \in FormattingGiven :
          /\ Len(doc.paras) = 4
          /\ doc.paras[1].sizes = <<24, 18>>
          /\ Cardinality(LargeParagraphs(doc.paras)) = 4
    /\ Len(SelectSeq(result.issues, IsLargeTextIssue)) = 1

C22_WitnessThree ==
    /\ ReturnedAuditResult /\ kind = "docx" /\ detailed
    /\ \E doc \in FormattingGiven :
          /\ Len(doc.paras) = 3
          /\ doc.paras[1].sizes = <<24, 18>>
          /\ Cardinality(LargeParagraphs(doc.paras)) = 3
    /\ SelectSeq(result.issues, IsLargeTextIssue) = <<>>

IsStructureIssue(issue, criterion) ==
    /\ issue.wcag_principle = "Operable"
    /\ issue.severity = "moderate"
    /\ issue.success_criterion = criterion
    /\ issue.detection_source = "pdf-structure-check"

\* C23: check_document_structure emits the moderate Operable 'no
\* outline/bookmarks' issue exactly when the table of contents has zero
\* entries and the moderate Operable 'insufficient outline for length' issue
\* exactly when the page count is above 10 and the outline has fewer than 3
\* entries; the two tests are independent, and a PDF meeting both gets both
\* issues, the bookmarks issue first.
C23_StructureIssues ==
    (check_in.fn = "check_document_structure" /\ check_out # NoResult
        /\ ~check_out.failed) =>
        LET IsBookmarks(issue) == IsStructureIssue(issue, "2.4.5")
            IsOutline(issue) == IsStructureIssue(issue, "2.4.6")
            bookmarks == SelectSeq(check_out.issues, IsBookmarks)
            outline == SelectSeq(check_out.issues, IsOutline)
            no_entries == check_in.doc.toc = 0
            too_short == check_in.doc.page_count >= 11 /\ check_in.doc.toc <= 2
        IN /\ Len(bookmarks) = IF no_entries THEN 1 ELSE 0
           /\ Len(outline) = IF too_short THEN 1 ELSE 0
           /\ Len(check_out.issues) = Len(bookmarks) + Len(outline)
           /\ (no_entries /\ too_short) =>
                 /\ IsBookmarks(check_out.issues[1])
                 /\ IsOutline(check_out.issues[2])
                 /\ check_out.issues[2].description_args
                       = <<check_in.doc.page_count, 0>>

C23_Witness ==
    /\ check_in.fn = "check_document_structure"
    /\ check_out # NoResult /\ ~check_out.failed
    /\ check_in.doc = [toc |-> 0, page_count |-> 11]
    /\ check_out.issues = <<PdfNoBookmarksIssue, PdfOutlineIssue(11, 0)>>

\* the issues shown in the sections of the report, in the order shown
RECURSIVE ShownFrom(_, _)
ShownFrom(sections, k) ==
    IF k > Len(sections) THEN <<>>
    ELSE [c \in 1..Len(sections[k].cards) |-> sections[k].cards[c].issue]
         \o ShownFrom(sections, k + 1)

\* C24: every renderer renders a principle section exactly for the
\* principles that have an issue, in the order Perceivable, Operable,
\* Understandable, Robust; the count of a section header is the number of
\* issues of audit_data.issues with that principle, every issue is rendered
\* exactly once, and the severity counts of the scorecard sum to
\* len(audit_data.issues).
C24_PrincipleSections ==
    report.format # "none" =>
        LET given == request.audit_data.issues
            Has(p) == \E i \in 1..Len(given) : given[i].wcag_principle = p
            NumberOf(p) ==
                Cardinality({i \in 1..Len(given) : given[i].wcag_principle = p})
            shown == ShownFrom(report.sections, 1)
        IN /\ [k \in 1..Len(report.sections) |-> report.sections[k].principle]
                 = SelectSeq(<<"Perceivable", "Operable", "Understandable", "Robust">>, Has)
           /\ \A k \in 1..Len(report.sections) :
                 /\ report.sections[k].count = NumberOf(report.sections[k].principle)
                 /\ Len(report.sections[k].cards) = report.sections[k].count
                 /\ \A c \in 1..Len(report.sections[k].cards) :
                       report.sections[k].cards[c].issue.wcag_principle
                          = report.sections[k].principle
           /\ Len(shown) = Len(given)
           /\ \A x \in ReportIssues : Occurrences(shown, x) = Occurrences(given, x)
           /\ SumOver(report.severity_counts, Severities) = Len(given)

C24_Witness ==
    /\ report.format = "text"
    /\ Len(request.audit_data.issues) = 4
    /\ request.audit_data.issues[1].wcag_principle = "Robust"
    /\ request.audit_data.issues[2].wcag_principle = "Perceivable"
    /\ [k \in 1..Len(report.sections) |-> report.sections[k].principle]
          = <<"Perceivable", "Operable", "Robust">>
    /\ report.sections[1].count = 2
    /\ report.sections[3].cards[1].number = 4

\* include_ai_summary of the request of an AuthenticatedValid event
SummaryAsked ==
    IF "include_ai_summary" \in DOMAIN SentRequest
    THEN SentRequest.include_ai_summary ELSE TRUE

\* the summary written from the counts of the request of the event
CountsSummary ==
    LET a == SentRequest.audit_data
        n == ToString(a.total_issues)
        sv == "locale" \notin DOMAIN SentRequest \/ SentRequest.locale = "sv-SE"
    IN IF sv THEN "Denna rapport innehaller " \o n \o " tillganglighetsproblem: 0, 0, 0, 0"
       ELSE "This report contains " \o n \o " accessibility issues: 0, 0, 0, 0"

\* C25: a failure of the AI summary never fails a report request: with
\* include_ai_summary true and generate_executive_summary raising the handler
\* returns 200 and the report carries the fallback summary built from the
\* audit's counts; with include_ai_summary false the report has no
\* executive-summary section.
C25_SummaryFallback ==
    (Responded /\ AuthenticatedValid) =>
        /\ (SummaryAsked /\ summary_raises) =>
              /\ "statusCode" \in DOMAIN response
              /\ response.statusCode = 200
              /\ response.body.report.summary = CountsSummary
        /\ (~SummaryAsked /\ response.statusCode = 200) =>
              response.body.report.summary = None

\* C25 where the query parameters are not null
C25_Probe_QueryNotNull ==
    ("queryStringParameters" \in DOMAIN event => event.queryStringParameters # Null)
        => C25_SummaryFallback

C25_Probe_Witness ==
    /\ Responded /\ AuthenticatedValid /\ SummaryAsked /\ summary_raises
    /\ response.statusCode = 200
    /\ SentRequest.audit_data.total_issues = 2
    /\ response.body.report.summary
          = "This report contains 2 accessibility issues: 0, 0, 0, 0"

C25_Probe_WitnessOff ==
    /\ Responded /\ AuthenticatedValid /\ ~SummaryAsked /\ summary_raises
    /\ response.statusCode = 200
    /\ response.body.report.summary = None

\* the request of the report CLI, when REQUEST_BODY holds one the schema accepts
CliAccepted ==
    /\ cli_in.program = "report"
    /\ "REQUEST_BODY" \in DOMAIN cli_in.environ
    /\ cli_in.environ.REQUEST_BODY.denotes.type = "object"
    /\ \E d \in AcceptedRequests :
          \/ cli_in.environ.REQUEST_BODY.denotes.items = WithAiFlag(d)
          \/ \E f \in Formats :
                cli_in.environ.REQUEST_BODY.denotes.items = WithFormat(WithAiFlag(d), f)

CliFormat ==
    IF "format" \in DOMAIN cli_in.environ.REQUEST_BODY.denotes.items
    THEN cli_in.environ.REQUEST_BODY.denotes.items.format ELSE None

\* C26: given a REQUEST_BODY that validates, the report CLI writes the report
\* to stdout and exits 0 for each of the formats word, html, markdown and
\* text; for a missing format it prints an INVALID_FORMAT error object and
\* exits 1; for any other failure it prints a REPORT_GENERATION_ERROR object
\* and exits 1.
C26_ReportCliExit ==
    (cli_in.program = "report" /\ cli_status.exited) =>
        IF CliAccepted
        THEN IF CliFormat \in {"word", "html", "markdown", "text"}
             THEN /\ cli_status.code = 0
                  /\ Len(cli_stdout) = 1
                  /\ "format" \in DOMAIN cli_stdout[1]
                  /\ cli_stdout[1].format = CliFormat
             ELSE /\ cli_status.code = 1
                  /\ cli_stdout = <<CliError("INVALID_FORMAT", 400)>>
        ELSE /\ cli_status.code = 1
             /\ cli_stdout = <<CliError("REPORT_GENERATION_ERROR", 500)>>

\* C26 on the requests that name no format or are not accepted
C26_Probe_ErrorPaths ==
    (CliAccepted => CliFormat = None) => C26_ReportCliExit

\* the report CLI never exits with status 0
C26_Probe_NeverSucceeds ==
    cli_status.exited => cli_status.code = 1

\* C27: for every accepted AuditData a renderer reports 'Fully Compliant'
\* only when the issues list is empty: with at least one issue the status is
\* Non-Compliant, Partially Compliant or Mostly Compliant, whatever the
\* total_issues field holds.
C27_FullyCompliantOnlyWhenEmpty ==
    (report.format # "none" /\ Len(request.audit_data.issues) >= 1) =>
        report.status \in
            {StatusShown(report.format, s, request.locale) :
                s \in {"Non-Compliant", "Partially Compliant", "Mostly Compliant"}}

\* C27 on the audits whose total_issues is the length of the issues list
C27_Probe_ConsistentTotal ==
    request.audit_data.total_issues = Len(request.audit_data.issues)
        => C27_FullyCompliantOnlyWhenEmpty

\* C28: every issue record emitted by the DOCX and PDF auditors is accepted
\* by the ReportIssue schema of the report generator (principle, criterion
\* pattern, severity, detection_source in the schema's set, description and
\* remediation present).
C28_IssuesFitReportSchema ==
    \A k \in 1..Len(Emitted) : ValidReportIssue(Emitted[k])

\* C28 without the detection_source: every other field fits the schema
C28_Probe_OtherFields ==
    \A k \in 1..Len(Emitted) :
        ValidReportIssue([Emitted[k] EXCEPT !.detection_source = "axe-core"])

\* no emitted issue carries a detection_source of the schema
C28_Probe_NoSourceFits ==
    \A k \in 1..Len(Emitted) :
        Emitted[k].detection_source \notin {"axe-core", "ai-heuristic"}

\* C29: the audit CLI prints exactly one JSON object per run and exits with
\* a non-zero status exactly when that object is an error object; a missing
\* file, an unreadable document and any exception end with an error object
\* and a non-zero status, and status 0 accompanies a complete AuditResult.
C29_ExitStatusTellsError ==
    (cli_in.program = "audit" /\ cli_status.exited) =>
        /\ Len(cli_stdout) = 1
        /\ (cli_status.code # 0) <=> ("error" \in DOMAIN cli_stdout[1])
        /\ cli_status.code = 0 => IsAuditResult(cli_stdout[1])
        /\ cli_in.file_state \in {"missing", "corrupt"} =>
              /\ cli_status.code # 0
              /\ "error" \in DOMAIN cli_stdout[1]

\* C29 on the runs in which the file is missing or the auditor returned an
\* AuditResult
C29_Probe_NoAuditorError ==
    (cli_in.program = "audit" /\ cli_status.exited
        /\ (cli_in.file_state = "missing" \/ IsAuditResult(result)))
        => C29_ExitStatusTellsError

\* an error object is always printed alone
C29_Probe_OneObject ==
    (cli_in.program = "audit" /\ cli_status.exited) => Len(cli_stdout) = 1

\* C30: the report handler never raises: for every event it returns a
\* response whose statusCode is one of 200, 204, 400, 401, 405, 500 and whose
\* headers include Access-Control-Allow-Origin.
C30_HandlerNeverRaises ==
    Responded =>
        /\ "statusCode" \in DOMAIN response
        /\ response.statusCode \in {200, 204, 400, 401, 405, 500}
        /\ "Access-Control-Allow-Origin" \in DOMAIN response.headers

\* the event is a POST whose 'headers' is present with a null value
PostWithNullHeaders ==
    /\ "httpMethod" \in DOMAIN event /\ event.httpMethod = "POST"
    /\ "headers" \in DOMAIN event /\ event.headers = Null

\* C30 on every other event
C30_Probe_OtherEvents == ~PostWithNullHeaders => C30_HandlerNeverRaises

\* a null 'queryStringParameters' is answered, with 500
C30_Probe_NullQueryAnswered ==
    /\ Responded /\ AuthenticatedValid
    /\ "queryStringParameters" \in DOMAIN event
    /\ event.queryStringParameters = Null
    /\ response.statusCode = 500
    /\ "Access-Control-Allow-Origin" \in DOMAIN response.headers

====
